---- MODULE Spec2Model ----
(***************************************************************************)
(* Commission distribution engine of the MLM platform: the monoline        *)
(* fixed-amount calculator, the sale handler that applies its transactions *)
(* to member wallets, and the binary placement / administration of the     *)
(* sponsorship tree.                                                       *)
(*                                                                         *)
(* Money is counted in cents (3.00 is 300).  Member ids are positive       *)
(* integers, None (0) stands for an absent reference (undefined / null).   *)
(***************************************************************************)
EXTENDS Integers, Sequences, FiniteSets, TLC

VARIABLES
    users,            \* db.data.users: member id -> member record
    dbMode,           \* "file": db.read() reloads the data; "memory": it keeps the live objects
    calcBuyer,        \* buyerId of the last calculateMonolineCommissions call
    calcResult,       \* what that call returned
    sale,             \* the running POST /sale handlers: sale id -> handler state
    ledger,           \* db.data.monolineCommissions: the persisted transactions
    passivePool,      \* the stored passive income pool
    applied,          \* history: transaction id -> number of wallet applications
    teamSizeCache,    \* member id -> cached team size
    teamVolumeCache,  \* member id -> cached team volume
    placing,          \* the running placeBinaryUser calls: new member id -> call state
    created,          \* number of member ids handed out so far
    adminOps,         \* number of administrative tree operations run so far
    assigned,         \* history: member id -> the slot placeBinaryUser wrote for it
    lastOp,           \* history: what the last completed tree operation did
    transactions,     \* db.data.transactions: the stored transaction records
    distributed,      \* number of calculateAndDistributeCommissions calls run so far
    poolAmount,       \* the amount of the passive income pool
    distribution,     \* the last passive income distribution record
    steps,            \* number of pool and e-wallet operations run so far
    walletBalances,   \* db.data.walletBalances of one user: currency -> balance record
    walletTransactions, \* db.data.walletTransactions: transaction id -> record
    computing,        \* the suspended team statistics computations
    memberNumber,     \* lastMemberNumber: on disk, in db.data, and the writes under way
    generating        \* the running createUser calls: call id -> call state

vars == <<users, dbMode, calcBuyer, calcResult, sale, ledger, passivePool,
          applied, teamSizeCache, teamVolumeCache, placing, created,
          adminOps, assigned, lastOp, transactions, distributed,
          poolAmount, distribution, steps, walletBalances, walletTransactions,
          computing, memberNumber, generating>>

calcVars == <<calcBuyer, calcResult>>
classicVars == <<transactions, distributed>>
poolVars == <<poolAmount, distribution>>
walletVars == <<walletBalances, walletTransactions>>
memberVars == <<memberNumber, generating>>
restVars == <<poolVars, steps, walletVars, computing, memberVars>>
saleVars == <<sale, ledger, passivePool, applied>>
treeVars == <<teamSizeCache, teamVolumeCache, placing, created, adminOps, assigned,
             lastOp>>

None == 0
AdminId == 1

EmptyMap == [x \in {} |-> 0]

\* the state of the parts that a run does not use
NoDistribution == [none |-> TRUE]
RestInit ==
    /\ poolAmount = None /\ distribution = NoDistribution /\ steps = 0
    /\ walletBalances = EmptyMap /\ walletTransactions = EmptyMap
    /\ computing = EmptyMap /\ memberNumber = None /\ generating = EmptyMap

(***************************************************************************)
(* Bounds of the model.                                                    *)
(***************************************************************************)
MaxChain == 9        \* members of a directory of the calculator runs
EligMembers == 3     \* members of a directory of the eligibility runs
SaleMembers == 3     \* members of the directory of the sale runs
MaxSales == 2        \* POST /sale requests of a run
MaxApply == 2        \* wallet applications of one transaction

\* the sum of f over the set S
RECURSIVE SumOver(_, _)
SumOver(S, f) ==
    IF S = {} THEN 0
    ELSE LET x == CHOOSE y \in S : TRUE IN f[x] + SumOver(S \ {x}, f)

(***************************************************************************)
(* Member records.                                                         *)
(***************************************************************************)
Wallet(balance, totalEarnings, sponsorBonus, careerBonus, passiveIncome) ==
    [balance |-> balance, totalEarnings |-> totalEarnings,
     sponsorBonus |-> sponsorBonus, careerBonus |-> careerBonus,
     passiveIncome |-> passiveIncome]

ZeroWallet == Wallet(0, 0, 0, 0, 0)

Member(sponsorId, role, isActive, monthly, annual, investment, wallet) ==
    [sponsorId |-> sponsorId, leftChild |-> None, rightChild |-> None,
     role |-> role, isActive |-> isActive,
     monthlySalesVolume |-> monthly, annualSalesVolume |-> annual,
     totalInvestment |-> investment, wallet |-> wallet]

(***************************************************************************)
(* MonolineCommissionService: the default commission structure and the     *)
(* membership requirements.                                                *)
(***************************************************************************)
ProductPrice == 2000
DirectSponsorAmount == 300
LevelAmount == <<250, 150, 100, 70, 50, 40, 30>>
PassivePoolAmount == 10
CompanyFundAmount == 900
MaxLevels == 7

MonthlyMinimum == 20
AnnualMinimum == 200
InitialMinimum == 100

DepthTypes == <<"depth_level_1", "depth_level_2", "depth_level_3", "depth_level_4",
                "depth_level_5", "depth_level_6", "depth_level_7">>

IsDepthType(t) == \E k \in 1..Len(DepthTypes) : DepthTypes[k] = t

\* checkUserActivity with an exclusive monthly boundary
checkUserActivityExclusive(user) ==
    LET isMonthlyActive == user.monthlySalesVolume > MonthlyMinimum
        isAnnuallyActive == user.annualSalesVolume >= AnnualMinimum
        hasInitialPurchase == user.totalInvestment >= InitialMinimum
    IN  [isMonthlyActive |-> isMonthlyActive,
         isAnnuallyActive |-> isAnnuallyActive,
         isFullyActive |-> isMonthlyActive /\ isAnnuallyActive /\ hasInitialPurchase,
         hasInitialPurchase |-> hasInitialPurchase]

\* checkUserActivity(user), called without salesData
checkUserActivity(user) ==
    LET isMonthlyActive == user.monthlySalesVolume >= MonthlyMinimum
        isAnnuallyActive == user.annualSalesVolume >= AnnualMinimum
        hasInitialPurchase == user.totalInvestment >= InitialMinimum
    IN  [isMonthlyActive |-> isMonthlyActive,
         isAnnuallyActive |-> isAnnuallyActive,
         isFullyActive |-> isMonthlyActive /\ isAnnuallyActive /\ hasInitialPurchase,
         hasInitialPurchase |-> hasInitialPurchase]

\* allUsers.find(u => u.id === id) succeeds
Found(allUsers, id) == id \in DOMAIN allUsers

\* the variant whose chain starts with the member itself
RECURSIVE getUplineChainFromSelf(_, _, _)
getUplineChainFromSelf(userId, allUsers, maxLevels) ==
    IF maxLevels = 0 THEN <<>>
    ELSE LET s == allUsers[userId].sponsorId
         IN  IF s = None \/ ~Found(allUsers, s) THEN <<userId>>
             ELSE <<userId>> \o getUplineChainFromSelf(s, allUsers, maxLevels - 1)

\* getUplineChain(user, allUsers, maxLevels): the ids of the chain, nearest first
RECURSIVE getUplineChain(_, _, _)
getUplineChain(userId, allUsers, maxLevels) ==
    IF maxLevels = 0 THEN <<>>
    ELSE LET s == allUsers[userId].sponsorId
         IN  IF s = None \/ ~Found(allUsers, s) THEN <<>>
             ELSE <<s>> \o getUplineChain(s, allUsers, maxLevels - 1)

Transaction(saleId, n, buyerId, type, recipientId, level, amount) ==
    [id |-> <<saleId, n>>, saleId |-> saleId, buyerId |-> buyerId,
     commissionType |-> type, recipientId |-> recipientId, level |-> level,
     amount |-> amount, status |-> "pending"]

RECURSIVE SumAmounts(_)
SumAmounts(txs) ==
    IF txs = <<>> THEN 0 ELSE Head(txs).amount + SumAmounts(Tail(txs))

\* the forEach with the forfeited amount of an inactive level dropped
RECURSIVE DepthCommissionsDropped(_, _, _, _, _, _)
DepthCommissionsDropped(chain, i, allUsers, saleId, buyerId, acc) ==
    IF i > Len(chain) THEN acc
    ELSE IF i > Len(LevelAmount)
         THEN DepthCommissionsDropped(chain, i + 1, allUsers, saleId, buyerId, acc)
    ELSE IF checkUserActivity(allUsers[chain[i]]).isFullyActive
         THEN DepthCommissionsDropped(chain, i + 1, allUsers, saleId, buyerId,
                  [acc EXCEPT !.transactions = Append(@,
                      Transaction(saleId, Len(@) + 1, buyerId, DepthTypes[i],
                                  chain[i], i, LevelAmount[i]))])
    ELSE DepthCommissionsDropped(chain, i + 1, allUsers, saleId, buyerId, acc)

\* the uplineChain.forEach of calculateMonolineCommissions, from index i on
\* (1-based): acc carries the transactions and the forfeited amount so far
RECURSIVE DepthCommissions(_, _, _, _, _, _)
DepthCommissions(chain, i, allUsers, saleId, buyerId, acc) ==
    IF i > Len(chain) THEN acc
    ELSE IF i > Len(LevelAmount)
         THEN DepthCommissions(chain, i + 1, allUsers, saleId, buyerId, acc)
    ELSE IF checkUserActivity(allUsers[chain[i]]).isFullyActive
         THEN DepthCommissions(chain, i + 1, allUsers, saleId, buyerId,
                  [acc EXCEPT !.transactions = Append(@,
                      Transaction(saleId, Len(@) + 1, buyerId, DepthTypes[i],
                                  chain[i], i, LevelAmount[i]))])
    ELSE DepthCommissions(chain, i + 1, allUsers, saleId, buyerId,
                  [acc EXCEPT !.inactive = @ + LevelAmount[i]])

BuyerNotFound == [error |-> "Buyer not found"]

\* the variant that pays the direct sponsor bonus to a fully active sponsor only
calculateMonolineCommissionsActiveSponsor(buyerId, allUsers, saleId) ==
    IF ~Found(allUsers, buyerId) THEN BuyerNotFound
    ELSE
    LET buyer == allUsers[buyerId]
        direct == IF /\ buyer.sponsorId # None
                     /\ Found(allUsers, buyer.sponsorId)
                     /\ checkUserActivity(allUsers[buyer.sponsorId]).isFullyActive
                  THEN <<Transaction(saleId, 1, buyerId, "direct_sponsor",
                                     buyer.sponsorId, None, DirectSponsorAmount)>>
                  ELSE <<>>
        uplineChain == getUplineChain(buyerId, allUsers, MaxLevels)
        pass == DepthCommissions(uplineChain, 1, allUsers, saleId, buyerId,
                                 [transactions |-> direct, inactive |-> 0])
    IN  [transactions |-> pass.transactions,
         passivePoolAmount |-> PassivePoolAmount,
         companyFundAmount |-> CompanyFundAmount + pass.inactive,
         totalDistributed |-> SumAmounts(pass.transactions),
         inactiveCommissionsToCompany |-> pass.inactive]

\* calculateMonolineCommissions(buyerId, productPrice, allUsers, structure) with
\* the default structure; saleId stands for the generated sale id
calculateMonolineCommissions(buyerId, allUsers, saleId) ==
    IF ~Found(allUsers, buyerId) THEN BuyerNotFound
    ELSE
    LET buyer == allUsers[buyerId]
        direct == IF buyer.sponsorId # None /\ Found(allUsers, buyer.sponsorId)
                  THEN <<Transaction(saleId, 1, buyerId, "direct_sponsor",
                                     buyer.sponsorId, None, DirectSponsorAmount)>>
                  ELSE <<>>
        uplineChain == getUplineChain(buyerId, allUsers, MaxLevels)
        pass == DepthCommissions(uplineChain, 1, allUsers, saleId, buyerId,
                                 [transactions |-> direct, inactive |-> 0])
    IN  [transactions |-> pass.transactions,
         passivePoolAmount |-> PassivePoolAmount,
         companyFundAmount |-> CompanyFundAmount + pass.inactive,
         totalDistributed |-> SumAmounts(pass.transactions),
         inactiveCommissionsToCompany |-> pass.inactive]

NoResult == [none |-> TRUE]
IsResult(r) == "transactions" \in DOMAIN r

(***************************************************************************)
(* Calculator runs: the directory is drawn by Init, the action applies     *)
(* calculateMonolineCommissions to a buyer.                                *)
(***************************************************************************)
\* a directory of n members in one sponsor line: member 1 is the top, the
\* sponsor of member i > 1 is i - 1; topSponsor is the sponsor reference of
\* member 1 (None, a member that does not exist, or a member of the line)
LineDirectory(n, topSponsor, metrics) ==
    [i \in 1..n |->
        Member(IF i = 1 THEN topSponsor ELSE i - 1,
               IF i = AdminId THEN "admin" ELSE "user", TRUE,
               metrics[i][1], metrics[i][2], metrics[i][3], ZeroWallet)]

FullMetrics == <<20, 200, 100>>
MonthlyValues == {0, 19, 20}
AnnualValues == {199, 200}
InvestmentValues == {99, 100}

IdleSale == EmptyMap
IdleTree == [op |-> "none"]

OtherInit ==
    /\ dbMode = "file"
    /\ sale = IdleSale /\ ledger = <<>> /\ passivePool = 0
    /\ applied = EmptyMap
    /\ teamSizeCache = EmptyMap /\ teamVolumeCache = EmptyMap
    /\ placing = EmptyMap /\ created = Cardinality(DOMAIN users)
    /\ adminOps = 0 /\ assigned = EmptyMap /\ lastOp = IdleTree
    /\ transactions = <<>> /\ distributed = 0
    /\ RestInit

InitCalc ==
    /\ \E n \in 1..MaxChain :
       \E topSponsor \in {None, n, n + 1} :
       \E metrics \in [1..n -> {FullMetrics, <<19, 200, 100>>}] :
           users = LineDirectory(n, topSponsor, metrics)
    /\ calcBuyer = None /\ calcResult = NoResult
    /\ OtherInit

InitElig ==
    /\ \E n \in 1..EligMembers :
       \E topSponsor \in {None, n, n + 1} :
       \E metrics \in [1..n -> MonthlyValues \X AnnualValues \X InvestmentValues] :
           users = LineDirectory(n, topSponsor, metrics)
    /\ calcBuyer = None /\ calcResult = NoResult
    /\ OtherInit

Calculate(buyerId) ==
    /\ calcBuyer' = buyerId
    /\ calcResult' = calculateMonolineCommissions(buyerId, users, 1)
    /\ UNCHANGED <<users, dbMode, classicVars, restVars, saleVars, treeVars>>

NextCalc == \E buyerId \in (DOMAIN users) \cup {Cardinality(DOMAIN users) + 1} :
                Calculate(buyerId)

SpecCalc == InitCalc /\ [][NextCalc]_vars
SpecElig == InitElig /\ [][NextCalc]_vars

(***************************************************************************)
(* POST /sale: the handler, one step per stretch between two awaits, and   *)
(* the wallet application of a transaction.                                *)
(***************************************************************************)
\* { ...a, ...b }: the fields of b override those of a
Merge(a, b) == [f \in DOMAIN a |-> IF f \in DOMAIN b THEN b[f] ELSE a[f]]

\* the users array after updateUser(id, updates)
updateUser(us, id, updates) ==
    IF id \in DOMAIN us THEN [us EXCEPT ![id] = Merge(@, updates)] ELSE us

\* processCommissionTransaction(transaction, recipient): the updated user
processCommissionTransaction(transaction, recipient) ==
    [recipient EXCEPT !.wallet =
        [@ EXCEPT
            !.balance = @ + transaction.amount,
            !.totalEarnings = @ + transaction.amount,
            !.sponsorBonus = IF transaction.commissionType = "direct_sponsor"
                             THEN @ + transaction.amount ELSE @,
            !.careerBonus = IF IsDepthType(transaction.commissionType)
                            THEN @ + transaction.amount ELSE @,
            !.passiveIncome = IF transaction.commissionType = "passive_income"
                              THEN @ + transaction.amount ELSE @]]

\* the array getAllUsers() returned to handler s, as the handler sees it now:
\* the objects read at that time, or the live objects of an in-memory store
AllUsersOf(s) == IF dbMode = "memory" THEN users ELSE sale[s].allUsers

Bump(f, x) == IF x \in DOMAIN f THEN [f EXCEPT ![x] = @ + 1] ELSE f @@ (x :> 1)
Count(f, x) == IF x \in DOMAIN f THEN f[x] ELSE 0

\* the for loop moves to the next transaction, or leaves the loop
NextTransaction(st) ==
    IF st.idx < Len(st.transactions)
    THEN [st EXCEPT !.idx = @ + 1, !.pc = "process"]
    ELSE [st EXCEPT !.idx = @ + 1, !.pc = "pool"]

\* the request arrives and getAllUsers() resolves
SaleGetAllUsers(s, buyerId) ==
    /\ s \notin DOMAIN sale
    /\ s = Cardinality(DOMAIN sale) + 1
    /\ sale' = sale @@ (s :>
          [pc |-> "calculate", buyerId |-> buyerId,
           allUsers |-> IF dbMode = "memory" THEN EmptyMap ELSE users,
           transactions |-> <<>>, passivePoolAmount |-> 0, idx |-> 1,
           updatedUser |-> None])
    /\ UNCHANGED <<users, dbMode, classicVars, restVars, calcVars, ledger, passivePool, applied, treeVars>>

\* getMonolineSettings() resolves and calculateMonolineCommissions runs
SaleCalculate(s) ==
    /\ s \in DOMAIN sale /\ sale[s].pc = "calculate"
    /\ LET r == calculateMonolineCommissions(sale[s].buyerId, AllUsersOf(s), s)
       IN  sale' = [sale EXCEPT ![s] =
              IF ~IsResult(r) THEN [@ EXCEPT !.pc = "failed"]
              ELSE [@ EXCEPT !.transactions = r.transactions,
                             !.passivePoolAmount = r.passivePoolAmount,
                             !.pc = IF r.transactions = <<>> THEN "pool"
                                    ELSE "process"]]
    /\ UNCHANGED <<users, dbMode, classicVars, restVars, calcVars, ledger, passivePool, applied, treeVars>>

\* allUsers.find(recipient) and processCommissionTransaction(transaction, recipient)
SaleProcess(s) ==
    /\ s \in DOMAIN sale /\ sale[s].pc = "process"
    /\ LET tx == sale[s].transactions[sale[s].idx]
       IN  sale' = [sale EXCEPT ![s] =
              IF Found(AllUsersOf(s), tx.recipientId)
              THEN [@ EXCEPT !.pc = "update",
                             !.updatedUser = processCommissionTransaction(
                                                 tx, AllUsersOf(s)[tx.recipientId])]
              ELSE NextTransaction(@)]
    /\ UNCHANGED <<users, dbMode, classicVars, restVars, calcVars, ledger, passivePool, applied, treeVars>>

\* updateUser(updatedUser.id, updatedUser), then the transaction is marked processed
SaleUpdateUser(s) ==
    /\ s \in DOMAIN sale /\ sale[s].pc = "update"
    /\ LET tx == sale[s].transactions[sale[s].idx]
       IN  /\ users' = updateUser(users, tx.recipientId, sale[s].updatedUser)
           /\ applied' = Bump(applied, tx.id)
           /\ sale' = [sale EXCEPT ![s] =
                  NextTransaction([@ EXCEPT
                      !.transactions[sale[s].idx].status = "processed",
                      !.updatedUser = None])]
    /\ UNCHANGED <<dbMode, classicVars, restVars, calcVars, ledger, passivePool, treeVars>>

\* addToPassiveIncomePool(result.passivePoolAmount)
SaleAddToPool(s) ==
    /\ s \in DOMAIN sale /\ sale[s].pc = "pool"
    /\ passivePool' = IF sale[s].passivePoolAmount > 0
                      THEN passivePool + sale[s].passivePoolAmount
                      ELSE passivePool
    /\ sale' = [sale EXCEPT ![s].pc = "log"]
    /\ UNCHANGED <<users, dbMode, classicVars, restVars, calcVars, ledger, applied, treeVars>>

\* createMonolineCommissionTransactions(result.transactions) and the response
SaleLog(s) ==
    /\ s \in DOMAIN sale /\ sale[s].pc = "log"
    /\ ledger' = ledger \o sale[s].transactions
    /\ sale' = [sale EXCEPT ![s].pc = "done"]
    /\ UNCHANGED <<users, dbMode, classicVars, restVars, calcVars, passivePool, applied, treeVars>>

\* the application step run once more for a transaction that was processed:
\* the recipient is looked up, processCommissionTransaction and updateUser run
ApplyAgain(i) ==
    /\ i \in DOMAIN ledger
    /\ ledger[i].status = "processed"
    /\ Count(applied, ledger[i].id) < MaxApply
    /\ Found(users, ledger[i].recipientId)
    /\ users' = updateUser(users, ledger[i].recipientId,
                    processCommissionTransaction(ledger[i], users[ledger[i].recipientId]))
    /\ applied' = Bump(applied, ledger[i].id)
    /\ UNCHANGED <<dbMode, classicVars, restVars, calcVars, sale, ledger, passivePool, treeVars>>

InitialWallet == Wallet(1000, 700, 300, 400, 0)

InitSale ==
    /\ \E metrics \in [1..SaleMembers -> {FullMetrics, <<19, 200, 100>>}] :
          users = [i \in 1..SaleMembers |->
                      [LineDirectory(SaleMembers, None, metrics)[i]
                          EXCEPT !.wallet = InitialWallet]]
    /\ dbMode \in {"file", "memory"}
    /\ calcBuyer = None /\ calcResult = NoResult
    /\ sale = IdleSale /\ ledger = <<>> /\ passivePool = 0
    /\ applied = EmptyMap
    /\ teamSizeCache = EmptyMap /\ teamVolumeCache = EmptyMap
    /\ placing = EmptyMap /\ created = Cardinality(DOMAIN users)
    /\ adminOps = 0 /\ assigned = EmptyMap /\ lastOp = IdleTree
    /\ transactions = <<>> /\ distributed = 0
    /\ RestInit

NextSale ==
    \/ \E s \in 1..MaxSales, buyerId \in 1..(SaleMembers + 1) : SaleGetAllUsers(s, buyerId)
    \/ \E s \in 1..MaxSales : SaleCalculate(s)
    \/ \E s \in 1..MaxSales : SaleProcess(s)
    \/ \E s \in 1..MaxSales : SaleUpdateUser(s)
    \/ \E s \in 1..MaxSales : SaleAddToPool(s)
    \/ \E s \in 1..MaxSales : SaleLog(s)
    \/ \E i \in 1..(MaxSales * (MaxLevels + 1)) : ApplyAgain(i)

SpecSale == InitSale /\ [][NextSale]_vars

(***************************************************************************)
(* MLMDatabase: team statistics over the sponsor relation, with their      *)
(* caches.  A cache maps a member id to the stored value; an entry older   *)
(* than CACHE_DURATION is an entry that ExpireTeamSize / ExpireTeamVolume  *)
(* has removed.  The statistics recurse over getDirectReferrals and never  *)
(* return when the sponsor relation has a cycle: Hang stands for that, and *)
(* the recursion budget Fuel(us) is longer than every acyclic descent.     *)
(***************************************************************************)
Hang == 0 - 1

Fuel(us) == Cardinality(DOMAIN us) + 1

getDirectReferrals(us, sponsorId) == {u \in DOMAIN us : us[u].sponsorId = sponsorId}

RECURSIVE getTotalTeamSize(_, _, _, _)
getTotalTeamSize(us, cache, userId, fuel) ==
    IF userId \in DOMAIN cache THEN cache[userId]
    ELSE IF fuel = 0 THEN Hang
    ELSE LET directReferrals == getDirectReferrals(us, userId)
             sizes == [r \in directReferrals |->
                          getTotalTeamSize(us, cache, r, fuel - 1)]
         IN  IF \E r \in directReferrals : sizes[r] = Hang THEN Hang
             ELSE Cardinality(directReferrals) + SumOver(directReferrals, sizes)

RECURSIVE getTeamVolume(_, _, _, _)
getTeamVolume(us, cache, userId, fuel) ==
    IF userId \in DOMAIN cache THEN cache[userId]
    ELSE IF userId \notin DOMAIN us THEN 0
    ELSE IF fuel = 0 THEN Hang
    ELSE LET directReferrals == getDirectReferrals(us, userId)
             volumes == [r \in directReferrals |->
                            getTeamVolume(us, cache, r, fuel - 1)]
         IN  IF \E r \in directReferrals : volumes[r] = Hang THEN Hang
             ELSE us[userId].totalInvestment + SumOver(directReferrals, volumes)

SetMax(S) == CHOOSE x \in S : \A y \in S : y <= x

RECURSIVE calculateMaxDepth(_, _, _, _)
calculateMaxDepth(us, userId, currentDepth, fuel) ==
    LET directReferrals == getDirectReferrals(us, userId)
    IN  IF directReferrals = {} THEN currentDepth
        ELSE IF fuel = 0 THEN Hang
        ELSE LET depths == {calculateMaxDepth(us, r, currentDepth + 1, fuel - 1) :
                               r \in directReferrals}
             IN  IF Hang \in depths THEN Hang ELSE SetMax(depths)

\* the ids whose team size a call for userId computes and stores
RECURSIVE SizeComputed(_, _, _, _)
SizeComputed(us, cache, userId, fuel) ==
    IF userId \in DOMAIN cache \/ fuel = 0 THEN {}
    ELSE {userId} \cup UNION {SizeComputed(us, cache, r, fuel - 1) :
                                 r \in getDirectReferrals(us, userId)}

RECURSIVE VolumeComputed(_, _, _, _)
VolumeComputed(us, cache, userId, fuel) ==
    IF userId \in DOMAIN cache \/ userId \notin DOMAIN us \/ fuel = 0 THEN {}
    ELSE {userId} \cup UNION {VolumeComputed(us, cache, r, fuel - 1) :
                                 r \in getDirectReferrals(us, userId)}

\* the team size cache after getTotalTeamSize has run for every id of roots
SizeCacheAfter(us, cache, roots) ==
    LET new == UNION {SizeComputed(us, cache, r, Fuel(us)) : r \in roots}
    IN  [x \in DOMAIN cache \cup new |->
            IF x \in DOMAIN cache THEN cache[x]
            ELSE getTotalTeamSize(us, cache, x, Fuel(us))]

VolumeCacheAfter(us, cache, roots) ==
    LET new == UNION {VolumeComputed(us, cache, r, Fuel(us)) : r \in roots}
    IN  [x \in DOMAIN cache \cup new |->
            IF x \in DOMAIN cache THEN cache[x]
            ELSE getTeamVolume(us, cache, x, Fuel(us))]

(***************************************************************************)
(* Enhanced auto-placement: the search for open slots, their scores and    *)
(* the choice.  Scores are kept as integers, ScoreScale times the score of *)
(* the code, so that the weights 0.5, 0.3, 0.2 and the division of a team   *)
(* volume by 1000 stay exact.                                              *)
(***************************************************************************)
Algorithms == {"size_based", "volume_based", "balanced", "depth_first"}

ScoreScale == 10000

Position(parentId, position, depth) ==
    [parentId |-> parentId, position |-> position, depth |-> depth]

ChildAt(us, parentId, position) ==
    IF position = "left" THEN us[parentId].leftChild ELSE us[parentId].rightChild

OtherSide(us, parentId, position) ==
    IF position = "left" THEN us[parentId].rightChild ELSE us[parentId].leftChild

\* a search that lists both slots of the start member, open or not
findAvailablePositionsAnySlot(us, startUserId, maxDepth, currentDepth) ==
    IF currentDepth > maxDepth \/ startUserId \notin DOMAIN us THEN <<>>
    ELSE <<Position(startUserId, "left", currentDepth),
           Position(startUserId, "right", currentDepth)>>

RECURSIVE findAvailablePositions(_, _, _, _)
findAvailablePositions(us, startUserId, maxDepth, currentDepth) ==
    IF currentDepth > maxDepth \/ startUserId \notin DOMAIN us THEN <<>>
    ELSE LET user == us[startUserId]
             leftPositions ==
                 IF user.leftChild = None
                 THEN <<Position(startUserId, "left", currentDepth)>>
                 ELSE findAvailablePositions(us, user.leftChild, maxDepth,
                                             currentDepth + 1)
             rightPositions ==
                 IF user.rightChild = None
                 THEN <<Position(startUserId, "right", currentDepth)>>
                 ELSE findAvailablePositions(us, user.rightChild, maxDepth,
                                             currentDepth + 1)
         IN  leftPositions \o rightPositions

scoreByTeamSize(us, sizeCache, parentId, position) ==
    LET otherSide == OtherSide(us, parentId, position)
    IN  IF otherSide = None THEN 0
        ELSE getTotalTeamSize(us, sizeCache, otherSide, Fuel(us))

\* the team volume of the other side; the code's score is this over 1000
scoreByVolume(us, volumeCache, parentId, position) ==
    LET otherSide == OtherSide(us, parentId, position)
    IN  IF otherSide = None THEN 0
        ELSE getTeamVolume(us, volumeCache, otherSide, Fuel(us))

\* the depth of the other side; the code's score is 5 times this
scoreByDepth(us, parentId, position) ==
    LET otherSide == OtherSide(us, parentId, position)
    IN  IF otherSide = None THEN 0
        ELSE calculateMaxDepth(us, otherSide, 0, Fuel(us))

\* the score of a candidate; the modifiers avoidOverloading and
\* considerCareerLevel, which no caller of placeBinaryUser passes, are off
scorePlacementPosition(us, sizeCache, volumeCache, pos, algorithm) ==
    LET size == scoreByTeamSize(us, sizeCache, pos.parentId, pos.position)
        volume == scoreByVolume(us, volumeCache, pos.parentId, pos.position)
        depth == scoreByDepth(us, pos.parentId, pos.position)
        base == pos.depth * 10 * ScoreScale
    IN  CASE algorithm = "size_based" ->
                IF size = Hang THEN Hang ELSE base + size * ScoreScale
          [] algorithm = "volume_based" ->
                IF volume = Hang THEN Hang
                ELSE base + volume * (ScoreScale \div 1000)
          [] algorithm = "depth_first" ->
                IF depth = Hang THEN Hang ELSE base + depth * 5 * ScoreScale
          [] OTHER ->
                IF Hang \in {size, volume, depth} THEN Hang
                ELSE base + (size * ScoreScale * 5) \div 10
                          + (volume * (ScoreScale \div 1000) * 3) \div 10
                          + (depth * 5 * ScoreScale * 2) \div 10

NoPosition == Position(None, "none", 0)

HangPosition == Position(None, "hang", 0)

\* candidates sorted by score with a stable sort, the first one taken
findOptimalPlacement(us, sizeCache, volumeCache, sponsorId, algorithm, maxDepth) ==
    LET candidates == findAvailablePositions(us, sponsorId, maxDepth, 1)
        score == [i \in DOMAIN candidates |->
                     scorePlacementPosition(us, sizeCache, volumeCache,
                                            candidates[i], algorithm)]
    IN  IF candidates = <<>> THEN NoPosition
        ELSE IF \E i \in DOMAIN candidates : score[i] = Hang THEN HangPosition
        ELSE candidates[CHOOSE i \in DOMAIN candidates :
                            \A j \in DOMAIN candidates :
                                \/ score[i] < score[j]
                                \/ score[i] = score[j] /\ i <= j]

\* the cache entries the scoring of the candidates leaves behind
ScoredSides(us, sponsorId, maxDepth) ==
    LET candidates == findAvailablePositions(us, sponsorId, maxDepth, 1)
    IN  {OtherSide(us, candidates[i].parentId, candidates[i].position) :
            i \in DOMAIN candidates} \ {None}

SlotUpdate(position, userId) ==
    IF position = "left" THEN [leftChild |-> userId] ELSE [rightChild |-> userId]

\* the two writes of executeBinaryPlacement; both caches are cleared after
executeBinaryPlacement(us, userId, parentId, position) ==
    updateUser(updateUser(us, parentId, SlotUpdate(position, userId)),
               userId, [sponsorId |-> parentId])

Children(us, parentId) ==
    IF parentId \in DOMAIN us
    THEN {us[parentId].leftChild, us[parentId].rightChild} \ {None}
    ELSE {}

\* getPlacementStats never returns when a leg's statistics do not
StatsHang(us, parentId) ==
    \E c \in Children(us, parentId) :
        \/ getTotalTeamSize(us, EmptyMap, c, Fuel(us)) = Hang
        \/ getTeamVolume(us, EmptyMap, c, Fuel(us)) = Hang

PlacementResult(hang, success, us, sizeCache, volumeCache, written, previous, claimed, algorithm) ==
    [hang |-> hang, success |-> success, users |-> us, sizeCache |-> sizeCache,
     volumeCache |-> volumeCache, written |-> written, previous |-> previous,
     claimed |-> claimed, algorithm |-> algorithm]

\* enhancedAutoPlacement from findOptimalPlacement on (the path without a
\* preferred side that is open)
autoPlacement(us, sizeCache, volumeCache, newUserId, sponsorId, algorithm, maxDepth) ==
    LET placement == findOptimalPlacement(us, sizeCache, volumeCache,
                                          sponsorId, algorithm, maxDepth)
        after == executeBinaryPlacement(us, newUserId, placement.parentId,
                                        placement.position)
    IN  IF placement = HangPosition
        THEN PlacementResult(TRUE, FALSE, us, sizeCache, volumeCache,
                             NoPosition, None, NoPosition, algorithm)
        ELSE IF placement = NoPosition
        THEN PlacementResult(FALSE, FALSE, us, sizeCache, volumeCache,
                             NoPosition, None, NoPosition, algorithm)
        ELSE PlacementResult(StatsHang(after, placement.parentId), TRUE, after,
                 SizeCacheAfter(after, EmptyMap, Children(after, placement.parentId)),
                 VolumeCacheAfter(after, EmptyMap, Children(after, placement.parentId)),
                 placement,
                 ChildAt(us, placement.parentId, placement.position),
                 placement, algorithm)

DefaultAlgorithm == "balanced"

DefaultMaxDepth == 7

enhancedAutoPlacement(us, sizeCache, volumeCache, newUserId, sponsorId, algorithm, maxDepth, preferredSide) ==
    IF sponsorId \notin DOMAIN us
    THEN PlacementResult(FALSE, FALSE, us, sizeCache, volumeCache,
                         NoPosition, None, NoPosition, "none")
    ELSE IF preferredSide # "auto" /\ ChildAt(us, sponsorId, preferredSide) = None
    THEN LET inner == autoPlacement(us, sizeCache, volumeCache, newUserId,
                                    sponsorId, DefaultAlgorithm, DefaultMaxDepth)
         IN  PlacementResult(inner.hang, TRUE, inner.users, inner.sizeCache,
                             inner.volumeCache, inner.written, inner.previous,
                             Position(sponsorId, preferredSide, 1),
                             "preferred_side")
    ELSE autoPlacement(us, sizeCache, volumeCache, newUserId, sponsorId,
                       algorithm, maxDepth)

(***************************************************************************)
(* The sponsorship tree: the operations of MLMDatabase, each run to        *)
(* completion.  The tree starts with the default admin alone.              *)
(***************************************************************************)
TreeMembers == 3

PlaceDepths == {1, 2, DefaultMaxDepth}

\* the preferences placeBinaryUser is called with: every algorithm and
\* depth without a preferred side, and a preferred side with the default
\* algorithm
PlacePreferences ==
    (Algorithms \X PlaceDepths \X {"auto"})
        \cup ({DefaultAlgorithm} \X {1, DefaultMaxDepth} \X {"left", "right"})

AdminUser == Member(None, "admin", TRUE, 0, 0, 100000, Wallet(5000000, 0, 0, 0, 0))

Without(f, x) == [y \in DOMAIN f \ {x} |-> f[y]]

Put(f, x, v) == [y \in DOMAIN f \cup {x} |-> IF y = x THEN v ELSE f[y]]

Assignment(parentId, position, previous) ==
    [parentId |-> parentId, position |-> position, previous |-> previous]

InitTree ==
    /\ users = Put(EmptyMap, AdminId, AdminUser)
    /\ dbMode = "file"
    /\ calcBuyer = None /\ calcResult = NoResult
    /\ sale = IdleSale /\ ledger = <<>> /\ passivePool = 0
    /\ applied = EmptyMap
    /\ teamSizeCache = EmptyMap /\ teamVolumeCache = EmptyMap
    /\ placing = EmptyMap /\ created = 1
    /\ adminOps = 0 /\ assigned = EmptyMap /\ lastOp = IdleTree
    /\ transactions = <<>> /\ distributed = 0
    /\ RestInit

\* createUser as the registration route calls it: no sponsor, no slot, no
\* investment, an empty wallet
CreateUserUpTo(limit) ==
    /\ created < 1 + limit
    /\ users' = Put(users, created + 1,
                    Member(None, "member", FALSE, 0, 0, 0, ZeroWallet))
    /\ created' = created + 1
    /\ lastOp' = [op |-> "createUser", user |-> created + 1]
    /\ UNCHANGED <<dbMode, classicVars, restVars, calcVars, saleVars, adminOps, teamSizeCache, teamVolumeCache,
                   placing, assigned>>

CreateUser == CreateUserUpTo(TreeMembers)

\* a member as createUser leaves it: no sponsor, held by no slot, and no
\* placement of it under way
IsNewMember(u) ==
    /\ u \in DOMAIN users /\ u # AdminId
    /\ users[u].sponsorId = None
    /\ \A p \in DOMAIN users : u \notin Children(users, p)
    /\ u \notin DOMAIN placing

\* the sponsor placeBinaryUser works with: the admin when none is given
ResolveSponsor(us, sponsorId) ==
    IF sponsorId # None THEN sponsorId
    ELSE IF AdminId \in DOMAIN us THEN AdminId ELSE None

PlaceBinaryUser(newUserId, sponsorId, algorithm, maxDepth, preferredSide) ==
    /\ IsNewMember(newUserId)
    /\ sponsorId # newUserId
    /\ LET sponsor == ResolveSponsor(users, sponsorId)
       IN  \E result \in {enhancedAutoPlacement(users, teamSizeCache,
                               teamVolumeCache, newUserId, sponsor, algorithm,
                               maxDepth, preferredSide)} :
           /\ ~result.hang
           /\ users' = result.users
           /\ teamSizeCache' = result.sizeCache
           /\ teamVolumeCache' = result.volumeCache
           /\ assigned' = IF result.success
                          THEN Put(assigned, newUserId,
                                   Assignment(result.written.parentId,
                                              result.written.position,
                                              result.previous))
                          ELSE assigned
           /\ lastOp' = [op |-> "placeBinaryUser", user |-> newUserId,
                         sponsorId |-> sponsor, success |-> result.success,
                         written |-> result.written, claimed |-> result.claimed]
    /\ UNCHANGED <<dbMode, classicVars, restVars, calcVars, saleVars, adminOps, placing, created>>

\* CACHE_DURATION passes: the entries, all written by the same operation,
\* are no longer served
ExpireTeamSize ==
    /\ teamSizeCache # EmptyMap
    /\ teamSizeCache' = EmptyMap
    /\ UNCHANGED <<users, dbMode, classicVars, restVars, calcVars, saleVars, adminOps, teamVolumeCache, placing,
                   created, assigned, lastOp>>

ExpireTeamVolume ==
    /\ teamVolumeCache # EmptyMap
    /\ teamVolumeCache' = EmptyMap
    /\ UNCHANGED <<users, dbMode, classicVars, restVars, calcVars, saleVars, adminOps, teamSizeCache, placing,
                   created, assigned, lastOp>>

MemberIds == 1..(1 + TreeMembers)

NextPlace ==
    \/ CreateUser
    \/ \E newUserId \in MemberIds, sponsorId \in {None} \cup MemberIds :
       \E preferences \in PlacePreferences :
           PlaceBinaryUser(newUserId, sponsorId, preferences[1], preferences[2],
                           preferences[3])
    \/ ExpireTeamSize
    \/ ExpireTeamVolume

SpecPlace == InitTree /\ [][NextPlace]_vars

(***************************************************************************)
(* placeBinaryUser as an asynchronous task, as two registrations running   *)
(* at once start it: default preferences, one step per stretch of the call *)
(* (the search and scoring; the write of the parent's child pointer; the   *)
(* write of the member's sponsorId with the cache clearing; the placement  *)
(* statistics).  placing holds the calls that are under way.               *)
(***************************************************************************)
Call(pc, sponsorId, placement) ==
    [pc |-> pc, sponsorId |-> sponsorId, placement |-> placement]

\* the search reads the tree in one stretch: interleavings inside the
\* search are left out, those between the search and the writes are kept
PlaceFind(newUserId, sponsorId) ==
    /\ IsNewMember(newUserId)
    /\ sponsorId # newUserId
    /\ LET sponsor == ResolveSponsor(users, sponsorId)
       IN  \E placement \in {IF sponsor \in DOMAIN users
                             THEN findOptimalPlacement(users, teamSizeCache,
                                      teamVolumeCache, sponsor, DefaultAlgorithm,
                                      DefaultMaxDepth)
                             ELSE NoPosition} :
           /\ placement # HangPosition
           /\ IF placement = NoPosition
              THEN /\ lastOp' = [op |-> "placeBinaryUser", user |-> newUserId,
                                 sponsorId |-> sponsor, success |-> FALSE,
                                 written |-> NoPosition, claimed |-> NoPosition]
                   /\ UNCHANGED <<placing, teamSizeCache, teamVolumeCache>>
              ELSE /\ placing' = Put(placing, newUserId,
                                     Call("parent", sponsor, placement))
                   /\ teamSizeCache' =
                          SizeCacheAfter(users, teamSizeCache,
                              ScoredSides(users, sponsor, DefaultMaxDepth))
                   /\ teamVolumeCache' =
                          VolumeCacheAfter(users, teamVolumeCache,
                              ScoredSides(users, sponsor, DefaultMaxDepth))
                   /\ UNCHANGED lastOp
    /\ UNCHANGED <<users, dbMode, classicVars, restVars, calcVars, saleVars, adminOps, created, assigned>>

PlaceWriteParent(newUserId) ==
    /\ newUserId \in DOMAIN placing
    /\ placing[newUserId].pc = "parent"
    /\ LET placement == placing[newUserId].placement
       IN  /\ users' = updateUser(users, placement.parentId,
                                  SlotUpdate(placement.position, newUserId))
           /\ assigned' = Put(assigned, newUserId,
                              Assignment(placement.parentId, placement.position,
                                         ChildAt(users, placement.parentId,
                                                 placement.position)))
    /\ placing' = [placing EXCEPT ![newUserId].pc = "sponsor"]
    /\ UNCHANGED <<dbMode, classicVars, restVars, calcVars, saleVars, adminOps, teamSizeCache, teamVolumeCache,
                   created, lastOp>>

PlaceWriteSponsor(newUserId) ==
    /\ newUserId \in DOMAIN placing
    /\ placing[newUserId].pc = "sponsor"
    /\ users' = updateUser(users, newUserId,
                           [sponsorId |-> placing[newUserId].placement.parentId])
    /\ teamSizeCache' = EmptyMap
    /\ teamVolumeCache' = EmptyMap
    /\ placing' = [placing EXCEPT ![newUserId].pc = "stats"]
    /\ UNCHANGED <<dbMode, classicVars, restVars, calcVars, saleVars, adminOps, created, assigned, lastOp>>

PlaceStats(newUserId) ==
    /\ newUserId \in DOMAIN placing
    /\ placing[newUserId].pc = "stats"
    /\ LET placement == placing[newUserId].placement
       IN  /\ ~StatsHang(users, placement.parentId)
           /\ teamSizeCache' = SizeCacheAfter(users, teamSizeCache,
                                   Children(users, placement.parentId))
           /\ teamVolumeCache' = VolumeCacheAfter(users, teamVolumeCache,
                                     Children(users, placement.parentId))
           /\ lastOp' = [op |-> "placeBinaryUser", user |-> newUserId,
                         sponsorId |-> placing[newUserId].sponsorId,
                         success |-> TRUE, written |-> placement,
                         claimed |-> placement]
    /\ placing' = Without(placing, newUserId)
    /\ UNCHANGED <<users, dbMode, classicVars, restVars, calcVars, saleVars, adminOps, created, assigned>>

NextRace ==
    \/ CreateUser
    \/ \E newUserId \in MemberIds, sponsorId \in {None} \cup MemberIds :
           PlaceFind(newUserId, sponsorId)
    \/ \E newUserId \in MemberIds : PlaceWriteParent(newUserId)
    \/ \E newUserId \in MemberIds : PlaceWriteSponsor(newUserId)
    \/ \E newUserId \in MemberIds : PlaceStats(newUserId)
    \/ ExpireTeamSize
    \/ ExpireTeamVolume

SpecRace == InitTree /\ [][NextRace]_vars

(***************************************************************************)
(* The administrative tree operations of MLMDatabase.  Each returns the    *)
(* directory it leaves and whether it reported success.                    *)
(***************************************************************************)
AdminResult(success, us) == [success |-> success, users |-> us]

\* the update that empties the slot of parent that holds userId, if one does
VacateUpdate(parent, userId) ==
    IF parent.leftChild = userId THEN [leftChild |-> None]
    ELSE IF parent.rightChild = userId THEN [rightChild |-> None]
    ELSE EmptyMap

\* position === "left" ? "leftChild" : "rightChild"
TargetField(position) == IF position = "left" THEN "left" ELSE "right"

adminPlaceUserInBinary(us, userId, parentId, position) ==
    IF userId \notin DOMAIN us \/ parentId \notin DOMAIN us
    THEN AdminResult(FALSE, us)
    ELSE IF ChildAt(us, parentId, TargetField(position)) # None
    THEN AdminResult(FALSE, us)
    ELSE AdminResult(TRUE,
             updateUser(updateUser(us, parentId,
                                   SlotUpdate(TargetField(position), userId)),
                        userId, [sponsorId |-> parentId]))

adminMoveUser(us, userId, newParentId, newPosition) ==
    IF userId \notin DOMAIN us \/ newParentId \notin DOMAIN us
    THEN AdminResult(FALSE, us)
    ELSE IF ChildAt(us, newParentId, TargetField(newPosition)) # None
    THEN AdminResult(FALSE, us)
    ELSE LET current == us[userId].sponsorId
             vacated == IF current # None /\ current \in DOMAIN us
                        THEN updateUser(us, current,
                                        VacateUpdate(us[current], userId))
                        ELSE us
         IN  AdminResult(TRUE,
                 updateUser(updateUser(vacated, newParentId,
                                SlotUpdate(TargetField(newPosition), userId)),
                            userId, [sponsorId |-> newParentId]))

\* the members of S in the order of the users array (creation order)
RECURSIVE InArrayOrder(_)
InArrayOrder(S) ==
    IF S = {} THEN <<>>
    ELSE LET first == CHOOSE x \in S : \A y \in S : x <= y
         IN  <<first>> \o InArrayOrder(S \ {first})

\* for (const child of directChildren) adminMoveUser(child, target, "auto")
RECURSIVE MoveChildren(_, _, _)
MoveChildren(us, children, target) ==
    IF children = <<>> THEN us
    ELSE MoveChildren(adminMoveUser(us, Head(children), target, "auto").users,
                      Tail(children), target)

Remove(us, userId) == [u \in DOMAIN us \ {userId} |-> us[u]]

adminDeleteUser(us, userId, transferChildrenTo) ==
    IF userId \notin DOMAIN us THEN AdminResult(FALSE, us)
    ELSE IF us[userId].role = "admin" THEN AdminResult(FALSE, us)
    ELSE LET user == us[userId]
             directChildren == InArrayOrder(getDirectReferrals(us, userId))
             transferTarget ==
                 IF transferChildrenTo # None THEN transferChildrenTo
                 ELSE IF user.sponsorId # None THEN user.sponsorId ELSE AdminId
             moved == MoveChildren(us, directChildren, transferTarget)
             vacated == IF user.sponsorId # None /\ user.sponsorId \in DOMAIN moved
                        THEN updateUser(moved, user.sponsorId,
                                 VacateUpdate(moved[user.sponsorId], userId))
                        ELSE moved
         IN  IF /\ directChildren # <<>>
                /\ transferChildrenTo # None
                /\ transferChildrenTo \notin DOMAIN us
             THEN AdminResult(FALSE, us)
             ELSE AdminResult(TRUE, Remove(vacated, userId))

Sides == {"left", "right"}

AdminMembers == 2

MaxAdminOps == 2

AdminIds == 1..(1 + AdminMembers)

AdminOp(op, userId, success) ==
    [op |-> op, user |-> userId, success |-> success]

AdminPlaceUserInBinary(userId, parentId, position) ==
    /\ adminOps < MaxAdminOps
    /\ adminOps' = adminOps + 1
    /\ \E result \in {adminPlaceUserInBinary(users, userId, parentId, position)} :
           /\ users' = result.users
           /\ teamSizeCache' = IF result.success THEN EmptyMap ELSE teamSizeCache
           /\ lastOp' = AdminOp("adminPlaceUserInBinary", userId, result.success)
    /\ UNCHANGED <<dbMode, classicVars, restVars, calcVars, saleVars, teamVolumeCache, placing, created,
                   assigned>>

AdminMoveUser(userId, newParentId, newPosition) ==
    /\ adminOps < MaxAdminOps
    /\ adminOps' = adminOps + 1
    /\ \E result \in {adminMoveUser(users, userId, newParentId, newPosition)} :
           /\ users' = result.users
           /\ teamSizeCache' = IF result.success THEN EmptyMap ELSE teamSizeCache
           /\ teamVolumeCache' =
                  IF result.success THEN EmptyMap ELSE teamVolumeCache
           /\ lastOp' = AdminOp("adminMoveUser", userId, result.success)
    /\ UNCHANGED <<dbMode, classicVars, restVars, calcVars, saleVars, placing, created, assigned>>

AdminDeleteUser(userId, transferChildrenTo) ==
    /\ adminOps < MaxAdminOps
    /\ adminOps' = adminOps + 1
    /\ \E result \in {adminDeleteUser(users, userId, transferChildrenTo)} :
           /\ users' = result.users
           /\ teamSizeCache' = IF result.success THEN EmptyMap ELSE teamSizeCache
           /\ teamVolumeCache' =
                  IF result.success THEN EmptyMap ELSE teamVolumeCache
           /\ lastOp' = AdminOp("adminDeleteUser", userId, result.success)
    /\ UNCHANGED <<dbMode, classicVars, restVars, calcVars, saleVars, placing, created, assigned>>

NextTree ==
    \/ CreateUserUpTo(AdminMembers)
    \/ \E newUserId \in AdminIds, sponsorId \in {None} \cup AdminIds :
           PlaceBinaryUser(newUserId, sponsorId, DefaultAlgorithm,
                           DefaultMaxDepth, "auto")
    \/ \E userId \in AdminIds, parentId \in AdminIds, position \in Sides :
           AdminPlaceUserInBinary(userId, parentId, position)
    \/ \E userId \in AdminIds, parentId \in AdminIds, position \in Sides :
           AdminMoveUser(userId, parentId, position)
    \/ \E userId \in AdminIds, transferChildrenTo \in {None} \cup AdminIds :
           AdminDeleteUser(userId, transferChildrenTo)
    \/ ExpireTeamSize
    \/ ExpireTeamVolume

SpecTree == InitTree /\ [][NextTree]_vars

(***************************************************************************)
(* DELETE user (deleteUserByAdmin): MLMDatabase.deleteUser removes the     *)
(* record and nothing else.  Sales running while members are deleted.      *)
(***************************************************************************)
deleteUser(us, id) == Remove(us, id)

DeleteUser(id) ==
    /\ id \in DOMAIN users
    /\ users' = deleteUser(users, id)
    /\ lastOp' = AdminOp("deleteUser", id, TRUE)
    /\ UNCHANGED <<dbMode, classicVars, restVars, calcVars, saleVars, teamSizeCache, teamVolumeCache,
                   placing, created, adminOps, assigned>>

NextSaleDelete ==
    \/ NextSale
    \/ \E id \in 1..SaleMembers : DeleteUser(id)

SpecSaleDelete == InitSale /\ [][NextSaleDelete]_vars

(***************************************************************************)
(* PUT user (updateUserByAdmin): the body of the request is handed to      *)
(* updateUser as it is.  Placement on a tree whose members' investments    *)
(* the admin has set.                                                      *)
(***************************************************************************)
UpdateUserByAdmin(userId, updates) ==
    /\ userId \in DOMAIN users
    /\ users' = updateUser(users, userId, updates)
    /\ lastOp' = AdminOp("updateUser", userId, TRUE)
    /\ UNCHANGED <<dbMode, classicVars, restVars, calcVars, saleVars, teamSizeCache, teamVolumeCache,
                   placing, created, adminOps, assigned>>

VolumeMembers == 2

VolumeIds == 1..(1 + VolumeMembers)

InvestmentChoices == {0, 40000}

NextVolume ==
    \/ CreateUserUpTo(VolumeMembers)
    \/ \E newUserId \in VolumeIds, sponsorId \in {None} \cup VolumeIds :
       \E preferences \in PlacePreferences :
           PlaceBinaryUser(newUserId, sponsorId, preferences[1], preferences[2],
                           preferences[3])
    \/ \E userId \in VolumeIds, investment \in InvestmentChoices :
           UpdateUserByAdmin(userId, [totalInvestment |-> investment])
    \/ ExpireTeamSize
    \/ ExpireTeamVolume

SpecVolume == InitTree /\ [][NextVolume]_vars

(***************************************************************************)
(* The leg statistics and the composite leg score of findWeakestLeg, and   *)
(* placement with the default preferences on a larger tree.                *)
(***************************************************************************)
\* the team of userId: its direct referrals and theirs, n levels down
RECURSIVE getAllTeamMembers(_, _, _)
getAllTeamMembers(us, userId, n) ==
    IF n = 0 THEN {}
    ELSE LET directReferrals == getDirectReferrals(us, userId)
         IN  directReferrals \cup
                 UNION {getAllTeamMembers(us, r, n - 1) : r \in directReferrals}

\* the statistics the function returns that the score reads; it returns no
\* teamSize and no volume
getDetailedLegStats(us, userId) ==
    [activeMembers |-> Cardinality({t \in getAllTeamMembers(us, userId, Fuel(us)) :
                                       us[t].isActive}),
     maxDepth |-> calculateMaxDepth(us, userId, 0, Fuel(us))]

\* 0.4 * teamSize / 100 + 0.3 * volume / 10000 + 0.2 * activeMembers / 100
\* + 0.1 * maxDepth / 10, times 100000
calculateLegScore(stats) ==
    stats.teamSize * 400 + stats.volume * 3 + stats.activeMembers * 200
        + stats.maxDepth * 1000

BalancedMembers == 4

BalancedIds == 1..(1 + BalancedMembers)

NextBalanced ==
    \/ CreateUserUpTo(BalancedMembers)
    \/ \E newUserId \in BalancedIds, sponsorId \in {None} \cup BalancedIds :
           PlaceBinaryUser(newUserId, sponsorId, DefaultAlgorithm,
                           DefaultMaxDepth, "auto")
    \/ ExpireTeamSize
    \/ ExpireTeamVolume

SpecBalanced == InitTree /\ [][NextBalanced]_vars

(***************************************************************************)
(* Deletion of placed members: adminDeleteUser and the deleteUser of the   *)
(* admin route, on a tree built by placements.                             *)
(***************************************************************************)
DeleteMembers == 3

DeleteIds == 1..(1 + DeleteMembers)

NextDelete ==
    \/ CreateUserUpTo(DeleteMembers)
    \/ \E newUserId \in DeleteIds, sponsorId \in {None} \cup DeleteIds :
           PlaceBinaryUser(newUserId, sponsorId, DefaultAlgorithm,
                           DefaultMaxDepth, "auto")
    \/ \E userId \in DeleteIds, transferChildrenTo \in {None} \cup DeleteIds :
           AdminDeleteUser(userId, transferChildrenTo)
    \/ \E id \in DeleteIds : DeleteUser(id)

SpecDelete == InitTree /\ [][NextDelete]_vars

(***************************************************************************)
(* The classic commission engine of MLMDatabase:                           *)
(* calculateAndDistributeCommissions and what it calls.  Amounts are in    *)
(* cents, the investment in whole currency units.                          *)
(***************************************************************************)
Db(us, txs) == [users |-> us, transactions |-> txs]

ClassicTransaction(userId, type, amount, description) ==
    [userId |-> userId, type |-> type, amount |-> amount,
     description |-> description, status |-> "completed"]

updateUserWallet(us, userId, amount, type) ==
    IF userId \notin DOMAIN us THEN us
    ELSE IF type \in {"deposit", "commission", "bonus"}
    THEN updateUser(us, userId,
             [wallet |-> [us[userId].wallet EXCEPT !.balance = @ + amount,
                                                   !.totalEarnings = @ + amount]])
    ELSE IF type = "withdrawal"
    THEN updateUser(us, userId,
             [wallet |-> [us[userId].wallet EXCEPT !.balance = @ - amount]])
    ELSE us

\* the record is pushed onto db.data.transactions, then updateUserWallet
\* reads the database again: a database kept in the file is reloaded and the
\* pushed record is gone before db.write() runs
createTransaction(db, mode, transaction) ==
    IF transaction.status = "completed"
    THEN Db(updateUserWallet(db.users, transaction.userId, transaction.amount,
                             transaction.type),
            IF mode = "memory" THEN Append(db.transactions, transaction)
            ELSE db.transactions)
    ELSE Db(db.users, Append(db.transactions, transaction))

\* x.wallet[category] += amount; x.wallet.balance += amount;
\* updateUser(x.id, {wallet: x.wallet}), where x was read before the
\* transaction was created: held is the wallet x had then.  In memory x.wallet
\* is the stored wallet itself
creditHeldWallet(us, mode, held, userId, category, amount) ==
    LET base == IF mode = "memory" THEN us[userId].wallet ELSE held
        credited == [f \in DOMAIN base |->
                        IF f = "balance" \/ f = category THEN base[f] + amount
                        ELSE base[f]]
    IN  updateUser(us, userId, [wallet |-> credited])

\* await createTransaction(...) followed by the credit of the held wallet
payout(db, mode, userId, type, category, amount, description) ==
    LET held == db.users[userId].wallet
        recorded == createTransaction(db, mode,
                        ClassicTransaction(userId, type, amount, description))
    IN  Db(creditHeldWallet(recorded.users, mode, held, userId, category, amount),
           recorded.transactions)

\* the order in which the two calls the callback does not await reach the
\* file: the wallet update of createTransaction reads after the held wallet
\* was written, or overwrites it, or is overwritten by it
RaceOutcomes == {"both", "wallet", "held"}

\* the callback of distributeBinaryCommissions for one upline member; the
\* writes it starts are taken to have reached the database before the next
\* payout of the call reads it
payoutNotAwaited(db, mode, userId, amount, outcome) ==
    LET held == db.users[userId].wallet
        transaction == ClassicTransaction(userId, "commission", amount, "binary")
    IN  IF mode = "memory" \/ outcome = "both"
        THEN LET written == creditHeldWallet(db.users, mode, held, userId,
                                             "careerBonus", amount)
             IN  createTransaction(Db(written, db.transactions), mode, transaction)
        ELSE IF outcome = "wallet"
        THEN createTransaction(db, mode, transaction)
        ELSE Db(creditHeldWallet(db.users, mode, held, userId, "careerBonus",
                                 amount),
                db.transactions)

\* 0.08, 0.06, 0.05, 0.03, 0.02, 0.015, 0.005, times 1000
commissionRates == <<80, 60, 50, 30, 20, 15, 5>>

\* traverseUpline with the callback of distributeBinaryCommissions
RECURSIVE distributeBinaryCommissions(_, _, _, _, _, _)
distributeBinaryCommissions(db, mode, amount, currentUserId, level, outcomes) ==
    IF level > Len(commissionRates) THEN db
    ELSE IF currentUserId \notin DOMAIN db.users THEN db
    ELSE IF db.users[currentUserId].sponsorId = None THEN db
    ELSE LET uplineUser == db.users[currentUserId].sponsorId
             commission == (amount * commissionRates[level]) \div 1000
         IN  IF uplineUser \notin DOMAIN db.users THEN db
             ELSE IF ~db.users[uplineUser].isActive THEN db
             ELSE distributeBinaryCommissions(
                      IF commission > 0
                      THEN payoutNotAwaited(db, mode, uplineUser, commission,
                                            outcomes[level])
                      ELSE db,
                      mode, amount, uplineUser, level + 1, outcomes)

\* careerLevel.passiveIncomeRate: the admin is stored with CAREER_LEVELS[6],
\* a registered member with CAREER_LEVELS[0], which getCareerLevel keeps while
\* the member's directReferrals field is below 2
passiveIncomeRate(user) == IF user.role = "admin" THEN 4 ELSE 0

RECURSIVE distributePassiveIncome(_, _, _, _, _)
distributePassiveIncome(db, mode, amount, userId, levels) ==
    IF levels <= 0 THEN db
    ELSE IF userId \notin DOMAIN db.users THEN db
    ELSE IF db.users[userId].sponsorId = None THEN db
    ELSE LET sponsor == db.users[userId].sponsorId
         IN  IF /\ sponsor \in DOMAIN db.users
                /\ db.users[sponsor].isActive
                /\ passiveIncomeRate(db.users[sponsor]) > 0
             THEN LET passiveAmount ==
                          (amount * passiveIncomeRate(db.users[sponsor]) * levels)
                              \div 700
                  IN  distributePassiveIncome(
                          IF passiveAmount > 0
                          THEN payout(db, mode, sponsor, "commission",
                                      "passiveIncome", passiveAmount, "passive")
                          ELSE db,
                          mode, amount, sponsor, levels - 1)
             ELSE db

calculateAndDistributeCommissions(db, mode, investment, userId, outcomes) ==
    IF userId \notin DOMAIN db.users THEN db
    ELSE IF db.users[userId].sponsorId = None THEN db
    ELSE LET cents == investment * 100
             sponsor == db.users[userId].sponsorId
             direct == IF sponsor \in DOMAIN db.users /\ db.users[sponsor].isActive
                       THEN payout(db, mode, sponsor, "commission",
                                   "sponsorBonus", (cents * 10) \div 100, "sponsor")
                       ELSE db
             binary == distributeBinaryCommissions(direct, mode,
                           (cents * 25) \div 100, userId, 1, outcomes)
             passive == distributePassiveIncome(binary, mode,
                            (cents * 5) \div 100, userId, 7)
         IN  IF AdminId \in DOMAIN passive.users
             THEN payout(passive, mode, AdminId, "bonus", "none",
                         (cents * 60) \div 100, "system")
             ELSE passive

ClassicMembers == 2

MaxDistributions == 2

ClassicIds == 1..(1 + ClassicMembers)

\* the price of the entry package and the investment of the spec's example
ClassicInvestments == {100, 1000}

\* the k-th referral of userId in array order, None when there are fewer
Referral(sponsors, userId, k) ==
    LET referrals == InArrayOrder({i \in DOMAIN sponsors : sponsors[i] = userId})
    IN  IF k <= Len(referrals) THEN referrals[k] ELSE None

\* the admin and registered members, each without sponsor or placed under an
\* earlier member, each active (after the entry package) or not
ClassicDirectory(sponsors, active) ==
    [i \in ClassicIds |->
        [(IF i = AdminId THEN AdminUser
          ELSE Member(sponsors[i], "member", active[i], 0, 0,
                      IF active[i] THEN 100 ELSE 0, ZeroWallet))
         EXCEPT !.leftChild = Referral(sponsors, i, 1),
                !.rightChild = Referral(sponsors, i, 2)]]

InitClassic ==
    /\ \E sponsors \in [ClassicIds \ {AdminId} -> {None} \cup ClassicIds],
          active \in [ClassicIds \ {AdminId} -> BOOLEAN] :
          /\ \A i \in DOMAIN sponsors : sponsors[i] < i
          /\ \A p \in ClassicIds :
                 Cardinality({i \in DOMAIN sponsors : sponsors[i] = p}) <= 2
          /\ users = ClassicDirectory(sponsors, active)
    /\ dbMode \in {"file", "memory"}
    /\ calcBuyer = None /\ calcResult = NoResult
    /\ sale = IdleSale /\ ledger = <<>> /\ passivePool = 0
    /\ applied = EmptyMap
    /\ teamSizeCache = EmptyMap /\ teamVolumeCache = EmptyMap
    /\ placing = EmptyMap /\ created = Cardinality(DOMAIN users)
    /\ adminOps = 0 /\ assigned = EmptyMap /\ lastOp = IdleTree
    /\ transactions = <<>> /\ distributed = 0
    /\ RestInit

CalculateAndDistributeCommissions(investment, userId, outcomes) ==
    /\ distributed < MaxDistributions
    /\ distributed' = distributed + 1
    /\ \E result \in {calculateAndDistributeCommissions(Db(users, transactions),
                          dbMode, investment, userId, outcomes)} :
           /\ users' = result.users
           /\ transactions' = result.transactions
    /\ lastOp' = AdminOp("calculateAndDistributeCommissions", userId, TRUE)
    /\ UNCHANGED <<dbMode, restVars, calcVars, saleVars, teamSizeCache,
                   teamVolumeCache, placing, created, adminOps, assigned>>

NextClassic ==
    \E investment \in ClassicInvestments, userId \in 1..(2 + ClassicMembers) :
        \E outcomes \in [1..ClassicMembers -> RaceOutcomes] :
            CalculateAndDistributeCommissions(investment, userId, outcomes)

SpecClassic == InitClassic /\ [][NextClassic]_vars

(***************************************************************************)
(* The numbers of the passive income pool.  The pool amount, the amount    *)
(* per member and the wallet fields they are added to are JavaScript       *)
(* numbers: IEEE 754 binary64, every operation rounded to the nearest      *)
(* number, ties to even.  Double(m, e) is m * 2^e, m written as 53 binary  *)
(* digits, most significant first, the first digit 1; zero has no digits.  *)
(***************************************************************************)
MantissaBits == 53

\* room below the last digit of a dividend, enough for divisors below 64
GuardBits == 8
LimbBits == 16

Zeros(n) == [i \in 1..n |-> 0]

Double(m, e) == [m |-> m, e |-> e]

DoubleZero == Double(<<>>, 0)

\* bits without its leading 0 digits
StripLeadingZeros(bits) ==
    IF \A i \in 1..Len(bits) : bits[i] = 0 THEN <<>>
    ELSE LET first == CHOOSE i \in 1..Len(bits) :
                          bits[i] = 1 /\ \A j \in 1..(i - 1) : bits[j] = 0
         IN  SubSeq(bits, first, Len(bits))

\* the digits of bits + 1
Increment(bits) ==
    IF \A i \in 1..Len(bits) : bits[i] = 1 THEN <<1>> \o Zeros(Len(bits))
    ELSE LET last == CHOOSE i \in 1..Len(bits) :
                         bits[i] = 0 /\ \A j \in (i + 1)..Len(bits) : bits[j] = 1
         IN  [i \in 1..Len(bits) |->
                 IF i < last THEN bits[i] ELSE IF i = last THEN 1 ELSE 0]

\* the number nearest to bits * 2^e, ties to the even neighbour; sticky says
\* that a non-zero part lies below the last digit of bits
Round(bits, e, sticky) ==
    LET s == StripLeadingZeros(bits)
    IN  IF s = <<>> THEN DoubleZero
        ELSE IF Len(s) <= MantissaBits
        THEN Double(s \o Zeros(MantissaBits - Len(s)), e - (MantissaBits - Len(s)))
        ELSE LET kept == SubSeq(s, 1, MantissaBits)
                 rest == sticky \/ \E i \in (MantissaBits + 2)..Len(s) : s[i] = 1
                 up == /\ s[MantissaBits + 1] = 1
                       /\ (rest \/ kept[MantissaBits] = 1)
                 r == IF up THEN Increment(kept) ELSE kept
                 shift == Len(s) - MantissaBits
             IN  IF Len(r) > MantissaBits
                 THEN Double(SubSeq(r, 1, MantissaBits), e + shift + 1)
                 ELSE Double(r, e + shift)

RECURSIVE IntegerBits(_)
IntegerBits(k) == IF k = 0 THEN <<>> ELSE IntegerBits(k \div 2) \o <<k % 2>>

FromInteger(k) == Round(IntegerBits(k), 0, FALSE)

\* the digits are worked on in groups of LimbBits, which keeps every
\* intermediate value of the arithmetic below 2^31
RECURSIVE BitsValue(_, _, _)
BitsValue(bits, from, count) ==
    IF count = 0 THEN 0
    ELSE 2 * BitsValue(bits, from, count - 1) + bits[from + count - 1]

ToLimbs(bits) ==
    LET p == Zeros((LimbBits - (Len(bits) % LimbBits)) % LimbBits) \o bits
    IN  [i \in 1..(Len(p) \div LimbBits) |->
            BitsValue(p, (i - 1) * LimbBits + 1, LimbBits)]

FromLimbs(limbs) ==
    [i \in 1..(Len(limbs) * LimbBits) |->
        (limbs[(i - 1) \div LimbBits + 1]
            \div 2^(LimbBits - 1 - ((i - 1) % LimbBits))) % 2]

\* long division of the groups by n: the quotient groups and the remainder
RECURSIVE LongDivision(_, _, _, _)
LongDivision(limbs, n, r, out) ==
    IF limbs = <<>> THEN [quotient |-> out, remainder |-> r]
    ELSE LET cur == r * 2^LimbBits + Head(limbs)
         IN  LongDivision(Tail(limbs), n, cur % n, Append(out, cur \div n))

\* x / n for a whole number n, 0 < n < 64
DoubleDivide(x, n) ==
    IF x.m = <<>> THEN DoubleZero
    ELSE LET d == LongDivision(ToLimbs(x.m \o Zeros(GuardBits)), n, 0, <<>>)
         IN  Round(FromLimbs(d.quotient), x.e - GuardBits, d.remainder # 0)

\* the groups of limbs * n + carry
RECURSIVE TimesLimbs(_, _, _)
TimesLimbs(limbs, n, carry) ==
    IF limbs = <<>> THEN (IF carry = 0 THEN <<>> ELSE <<carry>>)
    ELSE LET v == limbs[Len(limbs)] * n + carry
         IN  TimesLimbs(SubSeq(limbs, 1, Len(limbs) - 1), n, v \div 2^LimbBits)
                 \o <<v % 2^LimbBits>>

\* x * n for a whole number n, 0 <= n < 64
DoubleTimes(x, n) ==
    IF x.m = <<>> \/ n = 0 THEN DoubleZero
    ELSE Round(FromLimbs(TimesLimbs(ToLimbs(x.m), n, 0)), x.e, FALSE)

\* the decimal literal tenths / 10, as 0.1 for tenths = 1
Tenths(tenths) == DoubleDivide(FromInteger(tenths), 10)

\* the groups of a + b + carry, a and b of one length
RECURSIVE AddLimbs(_, _, _)
AddLimbs(a, b, carry) ==
    IF a = <<>> THEN (IF carry = 0 THEN <<>> ELSE <<carry>>)
    ELSE LET v == a[Len(a)] + b[Len(b)] + carry
         IN  AddLimbs(SubSeq(a, 1, Len(a) - 1), SubSeq(b, 1, Len(b) - 1),
                      v \div 2^LimbBits) \o <<v % 2^LimbBits>>

\* x + y
DoubleAdd(x, y) ==
    IF x.m = <<>> THEN y
    ELSE IF y.m = <<>> THEN x
    ELSE LET hi == IF x.e >= y.e THEN x ELSE y
             lo == IF x.e >= y.e THEN y ELSE x
             d == hi.e - lo.e
         IN  IF d > MantissaBits THEN hi
             ELSE LET a == ToLimbs(hi.m \o Zeros(d))
                      b == ToLimbs(lo.m)
                  IN  Round(FromLimbs(AddLimbs(a, Zeros(Len(a) - Len(b)) \o b, 0)),
                            lo.e, FALSE)

\* x < y
DoubleLess(x, y) ==
    IF y.m = <<>> THEN FALSE
    ELSE IF x.m = <<>> THEN TRUE
    ELSE \/ x.e < y.e
         \/ /\ x.e = y.e
            /\ \E i \in 1..MantissaBits :
                   x.m[i] < y.m[i] /\ \A j \in 1..(i - 1) : x.m[j] = y.m[j]

\* the groups of a - b - borrow, a and b of one length, a >= b
RECURSIVE SubtractLimbs(_, _, _)
SubtractLimbs(a, b, borrow) ==
    IF a = <<>> THEN <<>>
    ELSE LET v == a[Len(a)] - b[Len(b)] - borrow
         IN  SubtractLimbs(SubSeq(a, 1, Len(a) - 1), SubSeq(b, 1, Len(b) - 1),
                           IF v < 0 THEN 1 ELSE 0)
                 \o <<IF v < 0 THEN v + 2^LimbBits ELSE v>>

\* x - y for x >= y
DoubleSubtract(x, y) ==
    IF y.m = <<>> THEN x
    ELSE LET d == x.e - y.e
         IN  IF d > MantissaBits + GuardBits
             THEN LET a == ToLimbs(x.m \o Zeros(GuardBits))
                      one == Zeros(Len(a) - 1) \o <<1>>
                  IN  Round(FromLimbs(SubtractLimbs(a, one, 0)), x.e - GuardBits, TRUE)
             ELSE LET a == ToLimbs(x.m \o Zeros(d))
                      b == ToLimbs(y.m)
                  IN  Round(FromLimbs(SubtractLimbs(a, Zeros(Len(a) - Len(b)) \o b, 0)),
                            y.e, FALSE)

\* a number with its sign: the wallet fields can fall below zero
Number(neg, abs) == [neg |-> neg, abs |-> abs]

Zero == Number(FALSE, DoubleZero)

Negate(x) == IF x = Zero THEN Zero ELSE Number(~x.neg, x.abs)

\* x + y
Plus(x, y) ==
    IF x.neg = y.neg THEN Number(x.neg, DoubleAdd(x.abs, y.abs))
    ELSE IF x.abs = y.abs THEN Zero
    ELSE IF DoubleLess(x.abs, y.abs)
    THEN Number(y.neg, DoubleSubtract(y.abs, x.abs))
    ELSE Number(x.neg, DoubleSubtract(x.abs, y.abs))

\* x - y
Minus(x, y) == Plus(x, Negate(y))

\* x < y
Less(x, y) ==
    IF x.neg /\ ~y.neg THEN TRUE
    ELSE IF ~x.neg /\ y.neg THEN FALSE
    ELSE IF x.neg THEN DoubleLess(y.abs, x.abs)
    ELSE DoubleLess(x.abs, y.abs)

\* the next number above x > 0
NextUp(x) ==
    LET r == Increment(x.m)
    IN  IF Len(r) > MantissaBits THEN Double(SubSeq(r, 1, MantissaBits), x.e + 1)
        ELSE Double(r, x.e)

(***************************************************************************)
(* MonolineCommissionService.calculatePassiveIncomeDistribution: the       *)
(* record of an equal split of the pool among the fully active members.    *)
(***************************************************************************)
Recipient(userId, amount) ==
    [userId |-> userId, amount |-> amount, status |-> "pending"]

\* the variant that takes every member with the isActive flag as active
calculatePassiveIncomeDistributionByFlag(totalPoolAmount, allUsers) ==
    LET activeUsers == InArrayOrder({id \in DOMAIN allUsers : allUsers[id].isActive})
        activeMembers == Len(activeUsers)
        amountPerMember == IF activeMembers > 0
                           THEN DoubleDivide(totalPoolAmount, activeMembers)
                           ELSE DoubleZero
    IN  [totalPool |-> totalPoolAmount,
         activeMembers |-> activeMembers,
         amountPerMember |-> amountPerMember,
         recipients |-> [i \in 1..activeMembers |->
                            Recipient(activeUsers[i], amountPerMember)]]

calculatePassiveIncomeDistribution(totalPoolAmount, allUsers) ==
    LET activeUsers == InArrayOrder({id \in DOMAIN allUsers :
                           checkUserActivity(allUsers[id]).isFullyActive})
        activeMembers == Len(activeUsers)
        amountPerMember == IF activeMembers > 0
                           THEN DoubleDivide(totalPoolAmount, activeMembers)
                           ELSE DoubleZero
    IN  [totalPool |-> totalPoolAmount,
         activeMembers |-> activeMembers,
         amountPerMember |-> amountPerMember,
         recipients |-> [i \in 1..activeMembers |->
                            Recipient(activeUsers[i], amountPerMember)]]

(***************************************************************************)
(* Pool runs: Init draws the member list and the pool amount, the action   *)
(* applies calculatePassiveIncomeDistribution to them.                     *)
(***************************************************************************)
PoolMembers == 3

\* the pool amounts of the runs, in tenths: 0, 0.1, 0.9 and 10
PoolTenths == {0, 1, 9, 100}

InitPool ==
    /\ \E n \in 1..PoolMembers :
       \E metrics \in [1..n -> {FullMetrics, <<19, 200, 100>>}] :
           users = LineDirectory(n, None, metrics)
    /\ \E tenths \in PoolTenths : poolAmount = Tenths(tenths)
    /\ distribution = NoDistribution /\ steps = 0
    /\ walletBalances = EmptyMap /\ walletTransactions = EmptyMap
    /\ computing = EmptyMap /\ memberNumber = None /\ generating = EmptyMap
    /\ dbMode = "file"
    /\ calcBuyer = None /\ calcResult = NoResult
    /\ sale = IdleSale /\ ledger = <<>> /\ passivePool = 0
    /\ applied = EmptyMap
    /\ teamSizeCache = EmptyMap /\ teamVolumeCache = EmptyMap
    /\ placing = EmptyMap /\ created = Cardinality(DOMAIN users)
    /\ adminOps = 0 /\ assigned = EmptyMap /\ lastOp = IdleTree
    /\ transactions = <<>> /\ distributed = 0

CalculatePassiveIncomeDistribution ==
    /\ distribution = NoDistribution
    /\ distribution' = calculatePassiveIncomeDistribution(poolAmount, users)
    /\ UNCHANGED <<users, dbMode, poolAmount, steps, walletVars, computing, memberVars,
                   classicVars, calcVars, saleVars, treeVars>>

NextPool == CalculatePassiveIncomeDistribution

SpecPool == InitPool /\ [][NextPool]_vars

(***************************************************************************)
(* POST /admin/distribute-passive-income: the scheduled distribution of    *)
(* the stored pool, and addToPassiveIncomePool, which fills it.            *)
(***************************************************************************)
DistributeMembers == 3
MaxPoolSteps == 3

\* allUsers.filter(u => u.isActive)
ActiveUsers(allUsers) ==
    [id \in {i \in DOMAIN allUsers : allUsers[i].isActive} |-> allUsers[id]]

\* the for loop over distribution.recipients from index i on: every
\* recipient found among activeUsers with a positive amount is credited
RECURSIVE CreditRecipients(_, _, _, _)
CreditRecipients(us, activeUsers, recipients, i) ==
    IF i > Len(recipients) THEN us
    ELSE LET recipient == recipients[i]
         IN  IF recipient.userId \in DOMAIN activeUsers /\ recipient.amount # DoubleZero
             THEN LET user == activeUsers[recipient.userId]
                      wallet == [user.wallet EXCEPT
                                    !.balance = DoubleAdd(@, recipient.amount),
                                    !.totalEarnings = DoubleAdd(@, recipient.amount),
                                    !.passiveIncome = DoubleAdd(@, recipient.amount)]
                  IN  CreditRecipients(updateUser(us, recipient.userId,
                                                  Merge(user, [wallet |-> wallet])),
                                       activeUsers, recipients, i + 1)
             ELSE CreditRecipients(us, activeUsers, recipients, i + 1)

\* recipient.status = 'distributed' for the credited recipients
MarkDistributed(recipients, activeUsers) ==
    [i \in 1..Len(recipients) |->
        IF recipients[i].userId \in DOMAIN activeUsers
           /\ recipients[i].amount # DoubleZero
        THEN [recipients[i] EXCEPT !.status = "distributed"]
        ELSE recipients[i]]

PoolOp(op, changed) == [op |-> op, changed |-> changed]

DistributePassiveIncome ==
    /\ steps < MaxPoolSteps
    /\ steps' = steps + 1
    /\ LET activeUsers == ActiveUsers(users)
       IN  IF poolAmount = DoubleZero \/ DOMAIN activeUsers = {}
           THEN /\ UNCHANGED <<users, poolAmount, distribution>>
                /\ lastOp' = PoolOp("distribute-passive-income", FALSE)
           ELSE \E d \in {calculatePassiveIncomeDistribution(poolAmount, activeUsers)} :
                    /\ users' = CreditRecipients(users, activeUsers, d.recipients, 1)
                    /\ poolAmount' = DoubleZero
                    /\ distribution' =
                           [d EXCEPT !.recipients = MarkDistributed(@, activeUsers)]
                    /\ lastOp' = PoolOp("distribute-passive-income", TRUE)
    /\ UNCHANGED <<dbMode, walletVars, computing, memberVars, classicVars, calcVars,
                   saleVars, teamSizeCache, teamVolumeCache, placing, created,
                   adminOps, assigned>>

\* addToPassiveIncomePool(amount) with the pool share of one sale, 0.10
AddToPassiveIncomePool ==
    /\ steps < MaxPoolSteps
    /\ steps' = steps + 1
    /\ poolAmount' = DoubleAdd(poolAmount, Tenths(1))
    /\ lastOp' = PoolOp("addToPassiveIncomePool", TRUE)
    /\ UNCHANGED <<users, distribution, dbMode, walletVars, computing, memberVars,
                   classicVars, calcVars, saleVars, teamSizeCache, teamVolumeCache,
                   placing, created, adminOps, assigned>>

DoubleWallet == Wallet(DoubleZero, DoubleZero, DoubleZero, DoubleZero, DoubleZero)

InitDistribute ==
    /\ \E n \in 1..DistributeMembers :
       \E metrics \in [1..n -> {FullMetrics, <<19, 200, 100>>}] :
       \E flags \in [1..n -> BOOLEAN] :
           users = [i \in 1..n |->
                       Member(IF i = 1 THEN None ELSE i - 1,
                              IF i = AdminId THEN "admin" ELSE "user", flags[i],
                              metrics[i][1], metrics[i][2], metrics[i][3],
                              DoubleWallet)]
    /\ \E tenths \in {0, 9} : poolAmount = Tenths(tenths)
    /\ distribution = NoDistribution /\ steps = 0
    /\ walletBalances = EmptyMap /\ walletTransactions = EmptyMap
    /\ computing = EmptyMap /\ memberNumber = None /\ generating = EmptyMap
    /\ dbMode = "file"
    /\ calcBuyer = None /\ calcResult = NoResult
    /\ sale = IdleSale /\ ledger = <<>> /\ passivePool = 0
    /\ applied = EmptyMap
    /\ teamSizeCache = EmptyMap /\ teamVolumeCache = EmptyMap
    /\ placing = EmptyMap /\ created = Cardinality(DOMAIN users)
    /\ adminOps = 0 /\ assigned = EmptyMap /\ lastOp = IdleTree
    /\ transactions = <<>> /\ distributed = 0

NextDistribute == DistributePassiveIncome \/ AddToPassiveIncomePool

SpecDistribute == InitDistribute /\ [][NextDistribute]_vars

(***************************************************************************)
(* The e-wallet: the balance record of one user for each currency, and the *)
(* deposit and withdrawal requests an administrator processes.             *)
(***************************************************************************)
MaxWalletOps == 3

Currencies == {"TRY", "USD", "EUR", "BTC"}

\* the currencies the runs operate on
OpCurrencies == {"TRY", "BTC"}

Operations == {"add", "subtract", "freeze", "unfreeze"}

\* the amounts of the runs: 0.1, 0.2 and 1
WalletAmounts == {Number(FALSE, Tenths(1)), Number(FALSE, Tenths(2)),
                  Number(FALSE, FromInteger(1))}

WalletBalance(balance, frozen, available) ==
    [balance |-> balance, frozen |-> frozen, available |-> available]

ZeroBalance == WalletBalance(Zero, Zero, Zero)

\* initializeUserWallet(userId): a zero record for every currency without one
initializeUserWallet(balances) ==
    [c \in Currencies |-> IF c \in DOMAIN balances THEN balances[c] ELSE ZeroBalance]

\* updateWalletBalance(userId, currency, amount, operation)
updateWalletBalance(balances, currency, amount, operation) ==
    LET b == IF currency \in DOMAIN balances THEN balances[currency] ELSE ZeroBalance
        updated ==
            CASE operation = "add" ->
                     [b EXCEPT !.balance = Plus(@, amount), !.available = Plus(@, amount)]
              [] operation = "subtract" ->
                     [b EXCEPT !.balance = Minus(@, amount), !.frozen = Minus(@, amount)]
              [] operation = "freeze" ->
                     [b EXCEPT !.available = Minus(@, amount), !.frozen = Plus(@, amount)]
              [] operation = "unfreeze" ->
                     [b EXCEPT !.available = Plus(@, amount), !.frozen = Minus(@, amount)]
    IN  Put(balances, currency, updated)

WalletOp(op, id, action) == [op |-> op, id |-> id, action |-> action]

WalletRest ==
    /\ users = Put(EmptyMap, AdminId, AdminUser)
    /\ poolAmount = None /\ distribution = NoDistribution /\ steps = 0
    /\ computing = EmptyMap /\ memberNumber = None /\ generating = EmptyMap
    /\ calcBuyer = None /\ calcResult = NoResult
    /\ sale = IdleSale /\ ledger = <<>> /\ passivePool = 0
    /\ teamSizeCache = EmptyMap /\ teamVolumeCache = EmptyMap
    /\ placing = EmptyMap /\ created = 1
    /\ adminOps = 0 /\ assigned = EmptyMap /\ lastOp = IdleTree
    /\ transactions = <<>> /\ distributed = 0

walletFrame == <<users, poolVars, computing, memberVars, classicVars, calcVars, sale,
                 ledger, passivePool, teamSizeCache, teamVolumeCache, placing, created,
                 adminOps, assigned>>

\* wallet runs: updateWalletBalance and initializeUserWallet in any order
InitWalletOps ==
    /\ walletBalances = EmptyMap
    /\ walletTransactions = EmptyMap
    /\ applied = EmptyMap
    /\ dbMode = "file"
    /\ WalletRest

UpdateWalletBalance(currency, amount, operation) ==
    /\ steps < MaxWalletOps
    /\ steps' = steps + 1
    /\ walletBalances' = updateWalletBalance(walletBalances, currency, amount, operation)
    /\ lastOp' = WalletOp("updateWalletBalance", None, operation)
    /\ UNCHANGED <<walletTransactions, applied, dbMode, walletFrame>>

InitializeUserWallet ==
    /\ steps < MaxWalletOps
    /\ steps' = steps + 1
    /\ walletBalances' = initializeUserWallet(walletBalances)
    /\ lastOp' = WalletOp("initializeUserWallet", None, "none")
    /\ UNCHANGED <<walletTransactions, applied, dbMode, walletFrame>>

NextWalletOps ==
    \/ \E currency \in OpCurrencies, amount \in WalletAmounts, operation \in Operations :
           UpdateWalletBalance(currency, amount, operation)
    \/ InitializeUserWallet

SpecWalletOps == InitWalletOps /\ [][NextWalletOps]_vars

(***************************************************************************)
(* The deposit and withdrawal requests.  Each method reads the database,   *)
(* changes the transaction it found, and calls updateWalletBalance or      *)
(* getUserWalletBalance, which read the database again: with the file      *)
(* adapter the second read replaces the data, so the change made to the    *)
(* transaction before it is not part of what db.write() stores.            *)
(***************************************************************************)
MaxWalletRequests == 3

WalletTransaction(type, currency, amount, status) ==
    [type |-> type, currency |-> currency, amount |-> amount, status |-> status]

\* history: how often a request was added, frozen and subtracted
Applications(added, frozen, subtracted) ==
    [added |-> added, frozen |-> frozen, subtracted |-> subtracted]

\* the stored transactions after transaction.status = status, a nested
\* db.read() and the closing db.write()
StatusAfterRead(txs, mode, id, status) ==
    IF mode = "memory" THEN [txs EXCEPT ![id].status = status] ELSE txs

\* getUserWalletBalances(userId): initializes the wallet when the user has
\* no balance record
getUserWalletBalances(balances) ==
    IF DOMAIN balances = {} THEN initializeUserWallet(balances) ELSE balances

\* getUserWalletBalance(userId, currency) on the balances of the user
getUserWalletBalance(balances, currency) ==
    IF currency \in DOMAIN balances THEN balances[currency] ELSE ZeroBalance

ProcessDepositRequest(transactionId, action) ==
    /\ steps < MaxWalletRequests
    /\ steps' = steps + 1
    /\ IF transactionId \notin DOMAIN walletTransactions
       THEN /\ UNCHANGED <<walletVars, applied>>
            /\ lastOp' = WalletOp("processDepositRequest", transactionId,
                                  "Transaction not found")
       ELSE LET transaction == walletTransactions[transactionId] IN
            IF transaction.type # "deposit"
            THEN /\ UNCHANGED <<walletVars, applied>>
                 /\ lastOp' = WalletOp("processDepositRequest", transactionId,
                                       "Not a deposit transaction")
            ELSE /\ lastOp' = WalletOp("processDepositRequest", transactionId, action)
                 /\ IF action = "approve"
                    THEN /\ walletTransactions' =
                                StatusAfterRead(walletTransactions, dbMode,
                                                transactionId, "completed")
                         /\ walletBalances' =
                                updateWalletBalance(walletBalances, transaction.currency,
                                                    transaction.amount, "add")
                         /\ applied' = [applied EXCEPT ![transactionId].added = @ + 1]
                    ELSE /\ walletTransactions' =
                                [walletTransactions EXCEPT
                                    ![transactionId].status = "rejected"]
                         /\ UNCHANGED <<walletBalances, applied>>
    /\ UNCHANGED <<dbMode, walletFrame>>

ProcessWithdrawalRequest(transactionId, action) ==
    /\ steps < MaxWalletRequests
    /\ steps' = steps + 1
    /\ IF transactionId \notin DOMAIN walletTransactions
       THEN /\ UNCHANGED <<walletVars, applied>>
            /\ lastOp' = WalletOp("processWithdrawalRequest", transactionId,
                                  "Transaction not found")
       ELSE LET transaction == walletTransactions[transactionId] IN
            IF transaction.type # "withdrawal"
            THEN /\ UNCHANGED <<walletVars, applied>>
                 /\ lastOp' = WalletOp("processWithdrawalRequest", transactionId,
                                       "Not a withdrawal transaction")
            ELSE IF action = "approve"
            THEN LET balances == getUserWalletBalances(walletBalances)
                     balance == getUserWalletBalance(balances, transaction.currency)
                 IN  /\ walletTransactions' =
                            StatusAfterRead(walletTransactions, dbMode,
                                            transactionId, "processing")
                     /\ IF Less(balance.available, transaction.amount)
                        THEN /\ walletBalances' = balances
                             /\ UNCHANGED applied
                             /\ lastOp' = WalletOp("processWithdrawalRequest",
                                                   transactionId, "Insufficient balance")
                        ELSE /\ walletBalances' =
                                    updateWalletBalance(balances, transaction.currency,
                                                        transaction.amount, "freeze")
                             /\ applied' = [applied EXCEPT
                                               ![transactionId].frozen = @ + 1]
                             /\ lastOp' = WalletOp("processWithdrawalRequest",
                                                   transactionId, action)
            ELSE /\ walletTransactions' =
                        [walletTransactions EXCEPT ![transactionId].status = "rejected"]
                 /\ UNCHANGED <<walletBalances, applied>>
                 /\ lastOp' = WalletOp("processWithdrawalRequest", transactionId, action)
    /\ UNCHANGED <<dbMode, walletFrame>>

CompleteWithdrawal(transactionId) ==
    /\ steps < MaxWalletRequests
    /\ steps' = steps + 1
    /\ IF transactionId \notin DOMAIN walletTransactions
       THEN /\ UNCHANGED <<walletVars, applied>>
            /\ lastOp' = WalletOp("completeWithdrawal", transactionId,
                                  "Transaction not found")
       ELSE LET transaction == walletTransactions[transactionId]
            IN  /\ walletTransactions' =
                       StatusAfterRead(walletTransactions, dbMode,
                                       transactionId, "completed")
                /\ walletBalances' =
                       updateWalletBalance(walletBalances, transaction.currency,
                                           transaction.amount, "subtract")
                /\ applied' = [applied EXCEPT ![transactionId].subtracted = @ + 1]
                /\ lastOp' = WalletOp("completeWithdrawal", transactionId, "complete")
    /\ UNCHANGED <<dbMode, walletFrame>>

\* a pending deposit (id 1) and a pending withdrawal (id 2) of one user,
\* whose wallet is absent, empty or holds 2 TRY
InitWalletRequests ==
    /\ \E deposit, withdrawal \in {Number(FALSE, FromInteger(1)),
                                   Number(FALSE, FromInteger(2))} :
           walletTransactions =
               <<WalletTransaction("deposit", "TRY", deposit, "pending"),
                 WalletTransaction("withdrawal", "TRY", withdrawal, "pending")>>
    /\ \E balances \in {EmptyMap, initializeUserWallet(EmptyMap),
                        updateWalletBalance(initializeUserWallet(EmptyMap), "TRY",
                                            Number(FALSE, FromInteger(2)), "add")} :
           walletBalances = balances
    /\ applied = [id \in 1..2 |-> Applications(0, 0, 0)]
    /\ dbMode \in {"file", "memory"}
    /\ WalletRest

NextWalletRequests ==
    \E transactionId \in 1..3 :
        \/ \E action \in {"approve", "reject"} :
               \/ ProcessDepositRequest(transactionId, action)
               \/ ProcessWithdrawalRequest(transactionId, action)
        \/ CompleteWithdrawal(transactionId)

SpecWalletRequests == InitWalletRequests /\ [][NextWalletRequests]_vars

(***************************************************************************)
(* Member codes.  createUser awaits generateMemberId, which reads the      *)
(* database, adds one to lastMemberNumber and writes the database; several *)
(* registrations run these steps interleaved.  With the file adapter each  *)
(* db.read() loads what is on disk at that time and each db.write() stores  *)
(* the data as serialized when it was called, the writes in the order of   *)
(* their calls; in memory the data is one live object.                     *)
(***************************************************************************)
MemberCalls == 3

InitialMemberNumber == 1

MemberNumber(file, data, queue) == [file |-> file, data |-> data, queue |-> queue]

PendingWrite(call, content) == [call |-> call, content |-> content]

GeneratingCall(pc, memberId) == [pc |-> pc, memberId |-> memberId]

\* what db.read() leaves in db.data
ReadData(number, mode) == IF mode = "file" THEN number.file ELSE number.data

\* the queue of writes after db.write() was called by call c with content
WriteCalled(queue, mode, c, content) ==
    IF mode = "file" THEN Append(queue, PendingWrite(c, content)) ELSE queue

\* the write of call c can complete
WriteReady(number, mode, c) ==
    mode = "file" => number.queue # <<>> /\ Head(number.queue).call = c

\* the disk and the queue after the write of the head of the queue completed
WriteDone(number, mode) ==
    IF mode = "file"
    THEN [number EXCEPT !.file = Head(number.queue).content, !.queue = Tail(@)]
    ELSE number

memberFrame == <<users, dbMode, poolVars, steps, walletVars, computing, classicVars,
                 calcVars, saleVars, treeVars>>

\* createUser is called: its db.read() resolves and it calls generateMemberId
CreateUserCall(c) ==
    /\ c \notin DOMAIN generating
    /\ c = Cardinality(DOMAIN generating) + 1
    /\ c <= MemberCalls
    /\ generating' = Put(generating, c, GeneratingCall("read", None))
    /\ memberNumber' = [memberNumber EXCEPT !.data = ReadData(memberNumber, dbMode)]
    /\ UNCHANGED memberFrame

\* the db.read() of generateMemberId resolves: the number is read, one is
\* added, and db.write() is called
GenerateMemberIdRead(c) ==
    /\ c \in DOMAIN generating
    /\ generating[c].pc = "read"
    /\ LET lastNumber == ReadData(memberNumber, dbMode)
           nextNumber == lastNumber + 1
       IN  /\ memberNumber' =
                  [memberNumber EXCEPT
                      !.data = nextNumber,
                      !.queue = WriteCalled(@, dbMode, c, nextNumber)]
           /\ generating' = [generating EXCEPT ![c] = GeneratingCall("write", nextNumber)]
    /\ UNCHANGED memberFrame

\* the db.write() of generateMemberId resolves: the member code is returned,
\* createUser adds the user and calls db.write()
GenerateMemberIdWrite(c) ==
    /\ c \in DOMAIN generating
    /\ generating[c].pc = "write"
    /\ WriteReady(memberNumber, dbMode, c)
    /\ \E written \in {WriteDone(memberNumber, dbMode)} :
           memberNumber' =
               [written EXCEPT !.queue = WriteCalled(@, dbMode, c, written.data)]
    /\ generating' = [generating EXCEPT ![c].pc = "store"]
    /\ UNCHANGED memberFrame

\* the db.write() of createUser resolves
CreateUserStore(c) ==
    /\ c \in DOMAIN generating
    /\ generating[c].pc = "store"
    /\ WriteReady(memberNumber, dbMode, c)
    /\ memberNumber' = WriteDone(memberNumber, dbMode)
    /\ generating' = [generating EXCEPT ![c].pc = "done"]
    /\ UNCHANGED memberFrame

InitMemberId ==
    /\ memberNumber = MemberNumber(InitialMemberNumber, InitialMemberNumber, <<>>)
    /\ generating = EmptyMap
    /\ dbMode \in {"file", "memory"}
    /\ users = Put(EmptyMap, AdminId, AdminUser)
    /\ poolAmount = None /\ distribution = NoDistribution /\ steps = 0
    /\ walletBalances = EmptyMap /\ walletTransactions = EmptyMap
    /\ computing = EmptyMap
    /\ calcBuyer = None /\ calcResult = NoResult
    /\ sale = IdleSale /\ ledger = <<>> /\ passivePool = 0 /\ applied = EmptyMap
    /\ teamSizeCache = EmptyMap /\ teamVolumeCache = EmptyMap
    /\ placing = EmptyMap /\ created = 1
    /\ adminOps = 0 /\ assigned = EmptyMap /\ lastOp = IdleTree
    /\ transactions = <<>> /\ distributed = 0

NextMemberId ==
    \E c \in 1..MemberCalls :
        \/ CreateUserCall(c)
        \/ GenerateMemberIdRead(c)
        \/ GenerateMemberIdWrite(c)
        \/ CreateUserStore(c)

SpecMemberId == InitMemberId /\ [][NextMemberId]_vars

(***************************************************************************)
(* Team statistics under way.  getTotalTeamSize and getTeamVolume miss the *)
(* cache, await getDirectReferrals (getTeamVolume after getUserById), then *)
(* await the statistics of the referrals and store the total.  A call is   *)
(* suspended between the two; placements run to completion meanwhile.      *)
(***************************************************************************)
StatsMembers == 2

MaxStatsCalls == 2

StatsIds == 1..(1 + StatsMembers)

SponsorLinks(us) == [u \in DOMAIN us |-> us[u].sponsorId]

\* what a suspended call holds: the referrals it was given, the investment
\* of the member (getTeamVolume), and, as history, the sponsor links then
Computation(directReferrals, totalInvestment, links) ==
    [directReferrals |-> directReferrals, totalInvestment |-> totalInvestment,
     links |-> links]

StatsOp(op, userId, awaited, overtaken) ==
    [op |-> op, user |-> userId, awaited |-> awaited, overtaken |-> overtaken]

statsFrame == <<dbMode, poolVars, walletVars, memberVars, classicVars, calcVars,
                saleVars, placing, created, adminOps, assigned>>

StartGetTotalTeamSize(userId) ==
    /\ userId \in DOMAIN users
    /\ userId \notin DOMAIN teamSizeCache
    /\ steps < MaxStatsCalls
    /\ steps' = steps + 1
    /\ <<"size", userId>> \notin DOMAIN computing
    /\ computing' = Put(computing, <<"size", userId>>,
                        Computation(getDirectReferrals(users, userId), 0,
                                    SponsorLinks(users)))
    /\ UNCHANGED <<users, teamSizeCache, teamVolumeCache, lastOp, statsFrame>>

FinishGetTotalTeamSize(userId) ==
    /\ <<"size", userId>> \in DOMAIN computing
    /\ LET call == computing[<<"size", userId>>]
           sizes == [r \in call.directReferrals |->
                        getTotalTeamSize(users, teamSizeCache, r, Fuel(users))]
       IN  /\ \A r \in call.directReferrals : sizes[r] # Hang
           /\ teamSizeCache' =
                  Put(SizeCacheAfter(users, teamSizeCache, call.directReferrals),
                      userId,
                      Cardinality(call.directReferrals)
                          + SumOver(call.directReferrals, sizes))
           /\ lastOp' = StatsOp("getTotalTeamSize", userId,
                                call.directReferrals # {},
                                SponsorLinks(users) # call.links)
    /\ computing' = Without(computing, <<"size", userId>>)
    /\ UNCHANGED <<users, teamVolumeCache, steps, statsFrame>>

StartGetTeamVolume(userId) ==
    /\ userId \in DOMAIN users
    /\ userId \notin DOMAIN teamVolumeCache
    /\ steps < MaxStatsCalls
    /\ steps' = steps + 1
    /\ <<"volume", userId>> \notin DOMAIN computing
    /\ computing' = Put(computing, <<"volume", userId>>,
                        Computation(getDirectReferrals(users, userId),
                                    users[userId].totalInvestment,
                                    SponsorLinks(users)))
    /\ UNCHANGED <<users, teamSizeCache, teamVolumeCache, lastOp, statsFrame>>

FinishGetTeamVolume(userId) ==
    /\ <<"volume", userId>> \in DOMAIN computing
    /\ LET call == computing[<<"volume", userId>>]
           volumes == [r \in call.directReferrals |->
                          getTeamVolume(users, teamVolumeCache, r, Fuel(users))]
       IN  /\ \A r \in call.directReferrals : volumes[r] # Hang
           /\ teamVolumeCache' =
                  Put(VolumeCacheAfter(users, teamVolumeCache, call.directReferrals),
                      userId,
                      call.totalInvestment + SumOver(call.directReferrals, volumes))
           /\ lastOp' = StatsOp("getTeamVolume", userId,
                                call.directReferrals # {},
                                SponsorLinks(users) # call.links)
    /\ computing' = Without(computing, <<"volume", userId>>)
    /\ UNCHANGED <<users, teamSizeCache, steps, statsFrame>>

NextStats ==
    \/ CreateUserUpTo(StatsMembers)
    \/ \E newUserId \in StatsIds, sponsorId \in {None} \cup StatsIds :
           PlaceBinaryUser(newUserId, sponsorId, DefaultAlgorithm,
                           DefaultMaxDepth, "auto")
    \/ \E userId \in StatsIds :
           \/ StartGetTotalTeamSize(userId)
           \/ FinishGetTotalTeamSize(userId)
           \/ StartGetTeamVolume(userId)
           \/ FinishGetTeamVolume(userId)
    \/ ExpireTeamSize
    \/ ExpireTeamVolume

SpecStats == InitTree /\ [][NextStats]_vars

(***************************************************************************)
(* Properties of the calculator.                                           *)
(***************************************************************************)
\* the k-th member on the sponsor line above member b in the stored
\* directory, None when a link on the way is absent or refers to nobody
RECURSIVE Ancestor(_, _)
Ancestor(b, k) ==
    IF k = 0 THEN b
    ELSE LET a == Ancestor(b, k - 1)
         IN  IF a = None \/ a \notin DOMAIN users THEN None
             ELSE IF users[a].sponsorId \in DOMAIN users THEN users[a].sponsorId
             ELSE None

MeetsThresholds(m) ==
    /\ users[m].monthlySalesVolume >= 20
    /\ users[m].annualSalesVolume >= 200
    /\ users[m].totalInvestment >= 100

LevelTxs(txs, k) == {i \in DOMAIN txs : txs[i].commissionType = DepthTypes[k]}

ForfeitedLevels(b) ==
    {k \in 1..7 : Ancestor(b, k) # None /\ ~MeetsThresholds(Ancestor(b, k))}

\* C1: for every directory and buyer, totalDistributed + passivePoolAmount +
\* companyFundAmount of the returned split is the unit price, 20.00
C1_ExactSum ==
    IsResult(calcResult) =>
        calcResult.totalDistributed + calcResult.passivePoolAmount
            + calcResult.companyFundAmount = 2000

\* C9: at every upline position k of the buyer where a member exists, either
\* the member is fully active and exactly one pending depth_level_k
\* transaction of the level-k amount is addressed to them, or the member is
\* not fully active, no depth_level_k transaction exists and the level-k
\* amount is part of inactiveCommissionsToCompany, which is the sum of the
\* forfeited level amounts; and companyFundAmount is 9.00 plus that sum
C9_Forfeiture ==
    IsResult(calcResult) =>
        LET txs == calcResult.transactions IN
        /\ \A k \in 1..7 :
              LET m == Ancestor(calcBuyer, k) IN
              m # None =>
                 IF MeetsThresholds(m)
                 THEN /\ Cardinality(LevelTxs(txs, k)) = 1
                      /\ \A i \in LevelTxs(txs, k) :
                            /\ txs[i].recipientId = m
                            /\ txs[i].amount = LevelAmount[k]
                            /\ txs[i].status = "pending"
                 ELSE LevelTxs(txs, k) = {}
        /\ calcResult.inactiveCommissionsToCompany
              = SumOver(ForfeitedLevels(calcBuyer), LevelAmount)
        /\ calcResult.companyFundAmount
              = 900 + calcResult.inactiveCommissionsToCompany

\* a buyer with a paid and a forfeited upline level
C9_Witness ==
    /\ IsResult(calcResult)
    /\ calcResult.inactiveCommissionsToCompany > 0
    /\ \E k \in 1..7 : LevelTxs(calcResult.transactions, k) # {}
    /\ Ancestor(calcBuyer, 7) # None

\* C10: the member at upline position k receives the depth_level_k
\* transaction exactly when monthly sales >= 20, annual sales >= 200 and
\* total investment >= 100; isFullyActive is the conjunction of the three
\* flags of checkUserActivity
C10_EligibilityGate ==
    /\ IsResult(calcResult) =>
          \A k \in 1..7 :
              LET m == Ancestor(calcBuyer, k) IN
              m # None =>
                 ((\E i \in DOMAIN calcResult.transactions :
                       /\ IsDepthType(calcResult.transactions[i].commissionType)
                       /\ calcResult.transactions[i].level = k
                       /\ calcResult.transactions[i].recipientId = m)
                  <=> MeetsThresholds(m))
    /\ \A m \in DOMAIN users :
          LET a == checkUserActivity(users[m]) IN
          /\ a.isFullyActive
                = (a.isMonthlyActive /\ a.isAnnuallyActive /\ a.hasInitialPurchase)
          /\ a.isMonthlyActive = (users[m].monthlySalesVolume >= 20)
          /\ a.isAnnuallyActive = (users[m].annualSalesVolume >= 200)
          /\ a.hasInitialPurchase = (users[m].totalInvestment >= 100)

\* a sale whose first upline has monthly sales 19 and gets nothing while the
\* second sits exactly on the three thresholds and is paid
C10_Witness ==
    /\ IsResult(calcResult)
    /\ Ancestor(calcBuyer, 1) # None /\ Ancestor(calcBuyer, 2) # None
    /\ users[Ancestor(calcBuyer, 1)].monthlySalesVolume = 19
    /\ users[Ancestor(calcBuyer, 1)].annualSalesVolume = 200
    /\ users[Ancestor(calcBuyer, 1)].totalInvestment = 100
    /\ LevelTxs(calcResult.transactions, 1) = {}
    /\ users[Ancestor(calcBuyer, 2)].monthlySalesVolume = 20
    /\ users[Ancestor(calcBuyer, 2)].annualSalesVolume = 200
    /\ users[Ancestor(calcBuyer, 2)].totalInvestment = 100
    /\ LevelTxs(calcResult.transactions, 2) # {}

(***************************************************************************)
(* Properties of the sale handler.                                         *)
(***************************************************************************)
\* the sum of the amounts of the transactions of txs addressed to member m
\* whose type is in the set types
RECURSIVE AmountTo(_, _, _)
AmountTo(txs, m, types) ==
    IF txs = <<>> THEN 0
    ELSE (IF Head(txs).recipientId = m /\ Head(txs).commissionType \in types
          THEN Head(txs).amount ELSE 0) + AmountTo(Tail(txs), m, types)

DepthTypeSet == {DepthTypes[k] : k \in 1..7}
AllTypes == {"direct_sponsor"} \cup DepthTypeSet

NoRepeatedApplication == \A id \in DOMAIN applied : applied[id] <= 1

DistinctRecipients(txs) ==
    \A i, j \in DOMAIN txs : i # j => txs[i].recipientId # txs[j].recipientId

\* C2: applying a transaction that was already applied to its recipient
\* leaves the stored members (balance, totalEarnings, accumulators) unchanged
C2_IdempotentApplication ==
    [][\A i \in DOMAIN ledger :
          (/\ Count(applied, ledger[i].id) >= 1
           /\ Count(applied', ledger[i].id) = Count(applied, ledger[i].id) + 1)
          => users' = users]_vars

\* C3: when the only sale handler of a run has applied its transactions,
\* each member's balance and totalEarnings have grown by the sum of the
\* amounts of the sale's transactions addressed to that member, sponsorBonus
\* by the direct_sponsor amounts and careerBonus by the depth_level amounts
C3_LedgerApplication ==
    \A s \in DOMAIN sale :
       (/\ DOMAIN sale = {s}
        /\ sale[s].pc \in {"pool", "log", "done"}
        /\ NoRepeatedApplication)
       => \A m \in DOMAIN users :
             LET txs == sale[s].transactions
                 w == users[m].wallet
             IN  /\ w.balance = InitialWallet.balance + AmountTo(txs, m, AllTypes)
                 /\ w.totalEarnings
                       = InitialWallet.totalEarnings + AmountTo(txs, m, AllTypes)
                 /\ w.sponsorBonus
                       = InitialWallet.sponsorBonus + AmountTo(txs, m, {"direct_sponsor"})
                 /\ w.careerBonus
                       = InitialWallet.careerBonus + AmountTo(txs, m, DepthTypeSet)

\* C4: when two sale handlers, each with at most one transaction per
\* recipient, have both finished, every member's balance is the initial
\* balance plus the amounts of all transactions the two sales addressed to
\* that member
C4_NoLostUpdate ==
    (/\ DOMAIN sale = {1, 2}
     /\ \A s \in DOMAIN sale :
           sale[s].pc = "done" /\ DistinctRecipients(sale[s].transactions)
     /\ NoRepeatedApplication)
    => \A m \in DOMAIN users :
          users[m].wallet.balance
             = InitialWallet.balance + AmountTo(ledger, m, AllTypes)

(***************************************************************************)
(* Properties of the sponsorship tree.                                     *)
(***************************************************************************)
SlotOf(a) == <<a.parentId, a.position>>

\* C5: placeBinaryUser calls run one after another for distinct new members
\* on a tree that starts with the root alone never write a child slot that
\* already holds a member, so no two members are assigned the same
\* (parentId, side) pair
C5_SlotUniqueness ==
    /\ \A u \in DOMAIN assigned : assigned[u].previous = None
    /\ \A u, v \in DOMAIN assigned :
           u # v => SlotOf(assigned[u]) # SlotOf(assigned[v])

\* three members placed, one of them below a placed member, the last
\* operation a successful placement that did not go under the root
C5_Witness ==
    /\ Cardinality(DOMAIN assigned) >= 3
    /\ lastOp.op = "placeBinaryUser" /\ lastOp.success
    /\ lastOp.written.parentId \in DOMAIN assigned
    /\ lastOp.written.depth >= 2

\* C6: when placeBinaryUser calls for different new members run interleaved,
\* no call writes a child slot that already holds a member, and every
\* member whose call has finished still holds the slot the call wrote
C6_NoSlotOverwrite ==
    \A u \in DOMAIN assigned :
        /\ assigned[u].previous = None
        /\ u \notin DOMAIN placing =>
               ChildAt(users, assigned[u].parentId, assigned[u].position) = u

\* the sponsor chain of u ends at a member without sponsor within n steps
RECURSIVE SponsorChainEnds(_, _)
SponsorChainEnds(u, n) ==
    /\ u \in DOMAIN users
    /\ \/ users[u].sponsorId = None
       \/ n > 0 /\ SponsorChainEnds(users[u].sponsorId, n - 1)

\* the ids reached from the members of S through child pointers in at most
\* n further steps
RECURSIVE Below(_, _)
Below(S, n) ==
    IF n = 0 THEN S
    ELSE S \cup Below(UNION {Children(users, p) : p \in S}, n - 1)

\* C7: after any sequence of placeBinaryUser, adminPlaceUserInBinary,
\* adminMoveUser and adminDeleteUser calls, following sponsorId from any
\* member reaches a member without sponsor within population-size steps, and
\* no member is below itself through leftChild / rightChild pointers
C7_SponsorAcyclic ==
    \A u \in DOMAIN users :
        /\ SponsorChainEnds(u, Cardinality(DOMAIN users))
        /\ u \notin Below(Children(users, u), Cardinality(DOMAIN users))

\* the slots of the tree that hold the id c
SlotsHolding(c) ==
    {s \in (DOMAIN users) \X Sides : ChildAt(users, s[1], s[2]) = c}

\* C8: after any sequence of placeBinaryUser, adminPlaceUserInBinary,
\* adminMoveUser and adminDeleteUser calls, no member id is held by more
\* than one child slot, and a slot of p that holds c means that c exists and
\* that c.sponsorId = p
C8_SlotSponsorConsistency ==
    \A p \in DOMAIN users : \A c \in Children(users, p) :
        /\ Cardinality(SlotsHolding(c)) = 1
        /\ c \in DOMAIN users
        /\ users[c].sponsorId = p

\* C13: a placeBinaryUser call with preferredSide left or right whose sponsor
\* has that slot empty leaves the new member in exactly that slot of the
\* sponsor, and the placement it returns (the sponsor, the preferred side,
\* depth 1) is the slot that was written
C13_PreferredSide ==
    [][\A newUserId \in MemberIds, sponsorId \in {None} \cup MemberIds :
       \A side \in Sides :
           LET sponsor == ResolveSponsor(users, sponsorId)
           IN  (/\ Found(users, sponsor)
                /\ ChildAt(users, sponsor, side) = None
                /\ PlaceBinaryUser(newUserId, sponsorId, DefaultAlgorithm,
                                   DefaultMaxDepth, side))
               => /\ ChildAt(users', sponsor, side) = newUserId
                  /\ lastOp'.claimed = Position(sponsor, side, 1)
                  /\ lastOp'.written = lastOp'.claimed]_vars

\* the sponsor has an empty child slot
HasEmptySlot(us, sponsor) ==
    Found(us, sponsor) /\ \E side \in Sides : ChildAt(us, sponsor, side) = None

\* C12: a placeBinaryUser call without preferred side whose sponsor has an
\* empty child slot succeeds and puts the new member into an empty slot of
\* that sponsor, at depth 1, for every algorithm and depth bound and whatever
\* the size and volume of the other leg; with both slots empty it is the left
C12_EmptySlotFirst ==
    [][\A newUserId \in VolumeIds, sponsorId \in {None} \cup VolumeIds :
       \A algorithm \in Algorithms, maxDepth \in PlaceDepths :
           LET sponsor == ResolveSponsor(users, sponsorId)
           IN  (/\ HasEmptySlot(users, sponsor)
                /\ PlaceBinaryUser(newUserId, sponsorId, algorithm, maxDepth,
                                   "auto"))
               => /\ lastOp'.success
                  /\ lastOp'.written.parentId = sponsor
                  /\ lastOp'.written.depth = 1
                  /\ ChildAt(users, sponsor, lastOp'.written.position) = None
                  /\ ChildAt(users', sponsor, lastOp'.written.position) = newUserId
                  /\ (\A side \in Sides : ChildAt(users, sponsor, side) = None)
                         => lastOp'.written.position = "left"]_vars

Unreachable == 0 - 1

\* the number of child-pointer hops from a member of level down to target,
\* looking at most n levels down
RECURSIVE HopsFrom(_, _, _, _)
HopsFrom(us, level, target, n) ==
    IF target \in level THEN 0
    ELSE IF n = 0 \/ level = {} THEN Unreachable
    ELSE LET rest == HopsFrom(us, UNION {Children(us, p) : p \in level},
                              target, n - 1)
         IN  IF rest = Unreachable THEN Unreachable ELSE rest + 1

\* sponsorId, leftChild and rightChild of every member
TreeFields(us) ==
    [u \in DOMAIN us |-> <<us[u].sponsorId, us[u].leftChild, us[u].rightChild>>]

\* C14: a successful placeBinaryUser call reports a depth that is the number
\* of hops from the sponsor to the parent the member was put under plus one,
\* and at most the requested maxDepth; when no slot is open within maxDepth
\* levels below the sponsor the call fails, names the attempted algorithm and
\* leaves every sponsorId, leftChild and rightChild as it was
C14_SearchBound ==
    [][\A newUserId \in VolumeIds, sponsorId \in {None} \cup VolumeIds :
       \A preferences \in PlacePreferences :
           LET sponsor == ResolveSponsor(users, sponsorId)
               maxDepth == preferences[2]
               result == enhancedAutoPlacement(users, teamSizeCache,
                             teamVolumeCache, newUserId, sponsor,
                             preferences[1], maxDepth, preferences[3])
           IN  PlaceBinaryUser(newUserId, sponsorId, preferences[1], maxDepth,
                               preferences[3])
               => /\ lastOp'.success =>
                        /\ lastOp'.claimed.depth
                              = HopsFrom(users, {sponsor},
                                         lastOp'.written.parentId, maxDepth) + 1
                        /\ lastOp'.claimed.depth <= maxDepth
                        /\ ChildAt(users', lastOp'.written.parentId,
                                   lastOp'.written.position) = newUserId
                  /\ (/\ Found(users, sponsor)
                      /\ findAvailablePositions(users, sponsor, maxDepth, 1) = <<>>)
                        => /\ ~lastOp'.success
                           /\ result.algorithm = preferences[1]
                  /\ ~lastOp'.success => TreeFields(users') = TreeFields(users)]_vars

\* the statistics of a leg: team size and volume of the leg's root, with the
\* active members and the depth of getDetailedLegStats
LegStats(us, legId) ==
    [teamSize |-> getTotalTeamSize(us, EmptyMap, legId, Fuel(us)),
     volume |-> getTeamVolume(us, EmptyMap, legId, Fuel(us)),
     activeMembers |-> getDetailedLegStats(us, legId).activeMembers,
     maxDepth |-> getDetailedLegStats(us, legId).maxDepth]

\* the leg of sponsor with the strictly lower composite score, the left one
\* when the scores are equal
WeakerLeg(us, sponsor) ==
    IF calculateLegScore(LegStats(us, us[sponsor].leftChild))
          <= calculateLegScore(LegStats(us, us[sponsor].rightChild))
    THEN us[sponsor].leftChild
    ELSE us[sponsor].rightChild

\* C15: when both child slots of the sponsor are occupied and the two legs
\* have unequal team size, a balanced placement puts the new member inside
\* the leg with the strictly lower composite leg score
C15_WeakerLeg ==
    [][\A newUserId \in BalancedIds, sponsor \in BalancedIds :
           (/\ Found(users, sponsor)
            /\ users[sponsor].leftChild # None
            /\ users[sponsor].rightChild # None
            /\ LegStats(users, users[sponsor].leftChild).teamSize
                  # LegStats(users, users[sponsor].rightChild).teamSize
            /\ PlaceBinaryUser(newUserId, sponsor, DefaultAlgorithm,
                               DefaultMaxDepth, "auto"))
           => /\ lastOp'.success
              /\ lastOp'.written.parentId
                    \in Below({WeakerLeg(users, sponsor)}, Cardinality(DOMAIN users))]_vars

\* C16: a registration without sponsor code, whose placement starts from the
\* admin, ends with the new member holding a sponsorId, occupying a child
\* slot of that sponsor, and with a sponsor chain that leads to the admin
C16_RootFallback ==
    [][\A newUserId \in MemberIds :
           (/\ newUserId \in DOMAIN placing
            /\ placing[newUserId].sponsorId = AdminId
            /\ PlaceStats(newUserId))
           => /\ users'[newUserId].sponsorId \in DOMAIN users'
              /\ newUserId \in Children(users', users'[newUserId].sponsorId)
              /\ \E k \in 1..Cardinality(DOMAIN users) :
                     Ancestor(newUserId, k) = AdminId]_vars

\* C17: when an administrative tree mutation (adminPlaceUserInBinary,
\* adminMoveUser, adminDeleteUser) or deleteUser has completed with success,
\* the team-size cache and the team-volume cache are both empty
C17_CachesCleared ==
    (/\ lastOp.op \in {"adminPlaceUserInBinary", "adminMoveUser",
                       "adminDeleteUser", "deleteUser"}
     /\ lastOp.success)
    => /\ teamSizeCache = EmptyMap
       /\ teamVolumeCache = EmptyMap

\* the member the children of a deleted member are handed to
TransferTarget(us, userId, transferChildrenTo) ==
    IF transferChildrenTo # None THEN transferChildrenTo
    ELSE IF us[userId].sponsorId # None THEN us[userId].sponsorId ELSE AdminId

\* the directory holds no reference to the member userId
Unreferenced(us, userId) ==
    /\ userId \notin DOMAIN us
    /\ \A m \in DOMAIN us :
           /\ us[m].sponsorId # userId
           /\ us[m].leftChild # userId
           /\ us[m].rightChild # userId

\* C18: after a successful adminDeleteUser(u) the member u is absent, no
\* member has sponsorId u, no child slot refers to u, and every member that
\* had sponsorId u occupies a child slot of the transfer target; and a removal
\* by deleteUser leaves no reference to the removed member either
C18_DeletionReparents ==
    [][/\ \A userId \in DeleteIds, transferChildrenTo \in {None} \cup DeleteIds :
             (/\ AdminDeleteUser(userId, transferChildrenTo)
              /\ lastOp'.success)
             => /\ Unreferenced(users', userId)
                /\ \A c \in getDirectReferrals(users, userId) :
                       /\ TransferTarget(users, userId, transferChildrenTo)
                             \in DOMAIN users'
                       /\ c \in Children(users',
                                TransferTarget(users, userId, transferChildrenTo))
       /\ \A id \in DeleteIds : DeleteUser(id) => Unreferenced(users', id)]_vars

(***************************************************************************)
(* Properties of the transaction status.                                   *)
(***************************************************************************)
\* the transactions handler s holds in the directory of handlers sl
TransactionsOf(sl, s) == IF s \in DOMAIN sl THEN sl[s].transactions ELSE <<>>

\* C11: every transaction of a sale starts pending; its status only changes
\* from pending to processed, in the step that writes the recipient's updated
\* wallet, or from pending to failed, when the recipient is not found; a
\* transaction whose recipient is not found is marked failed, and once the
\* handler is done none of its transactions is pending
C11_StatusMachine ==
    [][\A s \in DOMAIN sale' :
        \A i \in DOMAIN TransactionsOf(sale', s) :
            LET old == TransactionsOf(sale, s)
                new == TransactionsOf(sale', s)
                r == new[i].recipientId
            IN  /\ i \notin DOMAIN old => new[i].status = "pending"
                /\ i \in DOMAIN old =>
                       \/ new[i].status = old[i].status
                       \/ /\ old[i].status = "pending"
                          /\ new[i].status = "processed"
                          /\ Found(users', r)
                          /\ users'[r] = sale[s].updatedUser
                       \/ /\ old[i].status = "pending"
                          /\ new[i].status = "failed"
                          /\ ~Found(AllUsersOf(s), r)
                /\ (/\ i \in DOMAIN old
                    /\ sale[s].pc = "process" /\ sale[s].idx = i
                    /\ sale'[s] # sale[s]
                    /\ ~Found(AllUsersOf(s), r)) => new[i].status = "failed"
                /\ sale'[s].pc = "done" => new[i].status # "pending"]_vars

(***************************************************************************)
(* Properties of the classic commission engine.                            *)
(***************************************************************************)
\* C19: every calculateAndDistributeCommissions call for an existing acting
\* member pays 60% of the investment to the admin: the stored admin balance
\* grows by at least that amount, with or without sponsor of the acting
\* member and whatever the activity of the upline
C19_SystemFund ==
    [][\A investment \in ClassicInvestments, userId \in DOMAIN users :
       \A outcomes \in [1..ClassicMembers -> RaceOutcomes] :
           CalculateAndDistributeCommissions(investment, userId, outcomes)
           => users'[AdminId].wallet.balance
                 >= users[AdminId].wallet.balance + investment * 60]_vars

\* the payouts a call makes: the transactions it creates, which a database
\* kept in memory records one by one
Payouts(investment, userId) ==
    calculateAndDistributeCommissions(Db(users, <<>>), "memory", investment,
        userId, [level \in 1..ClassicMembers |-> "both"]).transactions

\* the wallet accumulator of a payout
Category(description) ==
    IF description = "sponsor" THEN "sponsorBonus"
    ELSE IF description = "binary" THEN "careerBonus"
    ELSE IF description = "passive" THEN "passiveIncome"
    ELSE "none"

\* the sum of the amounts of the records of txs selected by keep
PaidTotal(txs, keep) ==
    SumOver({i \in DOMAIN txs : keep[i]}, [i \in DOMAIN txs |-> txs[i].amount])

\* C20: a calculateAndDistributeCommissions call records one completed
\* transaction per payout and raises the stored balance and totalEarnings of
\* every recipient by exactly the amounts paid to it, and each category
\* accumulator by exactly the amounts paid in that category; with investment
\* 1000 and an active sponsor the sponsor's sponsorBonus grows by 100 and the
\* admin balance by 600
C20_PayoutAccounting ==
    [][\A investment \in ClassicInvestments, userId \in DOMAIN users :
       \A outcomes \in [1..ClassicMembers -> RaceOutcomes] :
           CalculateAndDistributeCommissions(investment, userId, outcomes)
           => LET paid == Payouts(investment, userId)
                  sponsor == users[userId].sponsorId
              IN  /\ \A r \in DOMAIN users :
                         LET mine == [i \in DOMAIN paid |-> paid[i].userId = r]
                         IN  /\ users'[r].wallet.balance
                                   = users[r].wallet.balance + PaidTotal(paid, mine)
                             /\ users'[r].wallet.totalEarnings
                                   = users[r].wallet.totalEarnings
                                        + PaidTotal(paid, mine)
                             /\ \A category \in {"sponsorBonus", "careerBonus",
                                                  "passiveIncome"} :
                                    users'[r].wallet[category]
                                      = users[r].wallet[category]
                                          + PaidTotal(paid,
                                              [i \in DOMAIN paid |->
                                                  /\ mine[i]
                                                  /\ Category(paid[i].description)
                                                        = category])
                             /\ Cardinality({i \in DOMAIN transactions' :
                                                /\ i > Len(transactions)
                                                /\ transactions'[i].userId = r
                                                /\ transactions'[i].status
                                                      = "completed"})
                                   = Cardinality({i \in DOMAIN paid : mine[i]})
                  /\ (/\ investment = 1000
                      /\ sponsor \in DOMAIN users
                      /\ sponsor # AdminId
                      /\ users[sponsor].isActive
                      /\ users[sponsor].sponsorId = None)
                     => /\ users'[sponsor].wallet.sponsorBonus
                              = users[sponsor].wallet.sponsorBonus + 10000
                        /\ users'[AdminId].wallet.balance
                              = users[AdminId].wallet.balance + 60000]_vars

\* the depth bonus due to member r for a call: rate_k of 25% of the investment
\* for every level k at which r, active, is the k-th member on the sponsor
\* line of the acting member
DepthBonusDue(investment, userId, r) ==
    SumOver({k \in 1..Len(commissionRates) :
                Ancestor(userId, k) = r /\ users[r].isActive},
            [k \in 1..Len(commissionRates) |->
                (((investment * 100 * 25) \div 100) * commissionRates[k]) \div 1000])

PassiveIncomeDue(investment, userId, r) ==
    SumOver({k \in 1..7 : /\ Ancestor(userId, k) = r
                          /\ users[r].isActive
                          /\ passiveIncomeRate(users[r]) > 0},
            [k \in 1..7 |->
                (((investment * 100 * 5) \div 100) * passiveIncomeRate(users[r])
                    * (8 - k)) \div 700])

\* C22: in a call whose acting member has only active members on its sponsor
\* line, every member of the line with a positive passive rate receives its
\* passive income, also above a sponsor whose passive rate is 0: the stored
\* balance grows by at least the passive income and the depth bonus due (for
\* the admin, on top of the system fund)
C22_PassivePropagation ==
    [][\A investment \in ClassicInvestments, userId \in DOMAIN users :
       \A outcomes \in [1..ClassicMembers -> RaceOutcomes] :
           (/\ users[userId].sponsorId # None
            /\ \A k \in 1..7 : Ancestor(userId, k) # None
                                  => users[Ancestor(userId, k)].isActive
            /\ CalculateAndDistributeCommissions(investment, userId, outcomes))
           => \A r \in DOMAIN users :
                  users'[r].wallet.balance
                    >= users[r].wallet.balance
                         + PassiveIncomeDue(investment, userId, r)
                         + DepthBonusDue(investment, userId, r)
                         + (IF r = AdminId THEN investment * 60 ELSE 0)]_vars


(***************************************************************************)
(* Properties of the passive income pool.                                  *)
(***************************************************************************)
FullyActive == {id \in DOMAIN users : checkUserActivity(users[id]).isFullyActive}

\* the recipients are the fully active members, each once and pending, with
\* the amount per member as their amount
RecipientsAreFullyActive ==
    LET d == distribution
    IN  /\ d.activeMembers = Cardinality(FullyActive)
        /\ Len(d.recipients) = d.activeMembers
        /\ {d.recipients[i].userId : i \in 1..Len(d.recipients)} = FullyActive
        /\ \A i \in 1..Len(d.recipients) :
               /\ d.recipients[i].status = "pending"
               /\ d.recipients[i].amount = d.amountPerMember
        /\ d.activeMembers = 0 =>
               d.amountPerMember = DoubleZero /\ d.recipients = <<>>

\* a and b are equal or neighbours
WithinOneUnit(a, b) ==
    \/ a = b
    \/ a # DoubleZero /\ NextUp(a) = b
    \/ b # DoubleZero /\ NextUp(b) = a

\* C23 as stated: the recipients of calculatePassiveIncomeDistribution are
\* exactly the fully active members, each once, pending, with amount =
\* amountPerMember, and amountPerMember * activeMembers equals the pool
C23_ExactProduct ==
    distribution # NoDistribution =>
        /\ RecipientsAreFullyActive
        /\ distribution.activeMembers > 0 =>
               DoubleTimes(distribution.amountPerMember, distribution.activeMembers)
                   = poolAmount

\* C23 amended: the recipients of calculatePassiveIncomeDistribution are
\* exactly the fully active members, each once, pending, with amount =
\* amountPerMember; amountPerMember * activeMembers is the pool or one of
\* the two numbers next to it, and with no fully active member the record
\* has activeMembers 0, amountPerMember 0 and no recipients
C23_PoolSplit ==
    distribution # NoDistribution =>
        /\ RecipientsAreFullyActive
        /\ distribution.activeMembers > 0 =>
               WithinOneUnit(DoubleTimes(distribution.amountPerMember,
                                         distribution.activeMembers), poolAmount)

\* three fully active members split a pool of 0.9: three times the amount
\* per member is not 0.9
C23_Witness ==
    /\ distribution # NoDistribution
    /\ distribution.activeMembers = 3
    /\ Len(distribution.recipients) = 3
    /\ poolAmount = Tenths(9)
    /\ DoubleTimes(distribution.amountPerMember, 3) # poolAmount


(***************************************************************************)
(* Properties of the calculator: the direct sponsor bonus and the order of *)
(* the returned transactions.                                              *)
(***************************************************************************)
DirectTxs(txs) == {i \in 1..Len(txs) : txs[i].commissionType = "direct_sponsor"}

\* C24: when the buyer's sponsorId refers to an existing member, the result
\* of calculateMonolineCommissions holds exactly one direct_sponsor
\* transaction, pending, of 3.00, addressed to that sponsor, whether or not
\* the sponsor is fully active; when the buyer has no sponsor, or the
\* sponsor does not exist, it holds none
C24_DirectSponsorBonus ==
    IsResult(calcResult) =>
        LET txs == calcResult.transactions
            s == users[calcBuyer].sponsorId
        IN  IF s # None /\ s \in DOMAIN users
            THEN /\ Cardinality(DirectTxs(txs)) = 1
                 /\ \A i \in DirectTxs(txs) :
                        /\ txs[i].recipientId = s
                        /\ txs[i].amount = 300
                        /\ txs[i].status = "pending"
            ELSE DirectTxs(txs) = {}

\* the bonus is paid to a sponsor that is not fully active
C24_Witness ==
    /\ IsResult(calcResult)
    /\ DirectTxs(calcResult.transactions) # {}
    /\ ~MeetsThresholds(users[calcBuyer].sponsorId)

\* C26: in the result of calculateMonolineCommissions the recipient of the
\* depth_level_k transaction is the k-th member on the buyer's sponsor chain
\* (so nothing lies beyond the first missing link), k is at most 7, every
\* level has at most one transaction, and the list holds the direct_sponsor
\* transaction first and the depth levels after it in strictly increasing k
C26_UplineOrder ==
    IsResult(calcResult) =>
        LET txs == calcResult.transactions
            depth == {i \in 1..Len(txs) : IsDepthType(txs[i].commissionType)}
        IN  /\ \A i \in depth :
                   /\ txs[i].level \in 1..7
                   /\ txs[i].commissionType = DepthTypes[txs[i].level]
                   /\ Ancestor(calcBuyer, txs[i].level) # None
                   /\ txs[i].recipientId = Ancestor(calcBuyer, txs[i].level)
            /\ \A i, j \in depth : i < j => txs[i].level < txs[j].level
            /\ \A i \in DirectTxs(txs) : i = 1
            /\ DOMAIN txs = depth \cup DirectTxs(txs)

\* a buyer with more than seven members above it: the direct sponsor bonus
\* and seven depth levels
C26_Witness ==
    /\ IsResult(calcResult)
    /\ Len(calcResult.transactions) = 8
    /\ Ancestor(calcBuyer, 8) # None
    /\ calcResult.transactions[8].level = 7


(***************************************************************************)
(* Properties of the scheduled distribution.                               *)
(***************************************************************************)
\* the members whose wallet balance a step changes
Credited == {r \in DOMAIN users : users'[r].wallet.balance # users[r].wallet.balance}

\* a step of the distribute-passive-income handler
DistributeStep ==
    steps' = steps + 1 /\ lastOp'.op = "distribute-passive-income"

\* C27: whenever a run of the distribute-passive-income handler sets the
\* stored pool to 0, wallets were credited in that run and the credits (the
\* amount per member of the run, once for each credited member) add up to
\* the pool read at the start, within rounding; a run that credits nothing
\* leaves the pool as it was
C27_PoolConservation ==
    [][DistributeStep =>
          /\ (poolAmount # DoubleZero /\ poolAmount' = DoubleZero) =>
                /\ Credited # {}
                /\ \A r \in Credited :
                       users'[r].wallet.balance
                           = DoubleAdd(users[r].wallet.balance,
                                       distribution'.amountPerMember)
                /\ WithinOneUnit(DoubleTimes(distribution'.amountPerMember,
                                             Cardinality(Credited)), poolAmount)
          /\ Credited = {} => poolAmount' = poolAmount]_vars


(***************************************************************************)
(* Properties of the e-wallet.                                             *)
(***************************************************************************)
\* C30: after any sequence of updateWalletBalance operations on a wallet
\* that starts at balance = frozen = available = 0, balance = available +
\* frozen holds for every currency
C30_BalanceDecomposition ==
    \A c \in DOMAIN walletBalances :
        walletBalances[c].balance
            = Plus(walletBalances[c].available, walletBalances[c].frozen)

\* the counts and the frozen amounts of a state of the request runs
AtMostOnce ==
    /\ \A t \in DOMAIN walletTransactions :
           /\ walletTransactions[t].type = "deposit" => applied[t].added <= 1
           /\ walletTransactions[t].type = "withdrawal" => applied[t].subtracted <= 1
    /\ \A c \in DOMAIN walletBalances : ~walletBalances[c].frozen.neg

\* a step of a request method on transaction t
RequestStep(t) == steps' = steps + 1 /\ lastOp'.id = t

\* C29: for every sequence of processDepositRequest, processWithdrawalRequest
\* and completeWithdrawal calls on a wallet transaction, a deposit is added
\* at most once, a withdrawal is subtracted at most once and only after an
\* approval froze it, a call on a transaction whose stored status is
\* completed or rejected changes no wallet, and frozen is never negative
C29_AtMostOnce ==
    /\ []AtMostOnce
    /\ [][\A t \in DOMAIN walletTransactions :
             RequestStep(t) =>
                /\ applied'[t].subtracted > applied[t].subtracted =>
                       /\ walletTransactions[t].type = "withdrawal"
                       /\ applied[t].frozen >= 1
                /\ walletTransactions[t].status \in {"completed", "rejected"} =>
                       walletBalances' = walletBalances]_vars


(***************************************************************************)
(* Properties of the member codes.                                         *)
(***************************************************************************)
\* the calls whose generateMemberId has returned a number
Generated == {c \in DOMAIN generating : generating[c].pc \in {"store", "done"}}

\* lastMemberNumber as stored
StoredMemberNumber ==
    IF dbMode = "file" THEN memberNumber.file ELSE memberNumber.data

\* C28: under every interleaving of concurrent createUser calls no two
\* members receive the same member code, and when the calls have finished
\* the stored lastMemberNumber is its initial value plus the number of
\* generateMemberId calls that returned
C28_UniqueMemberIds ==
    /\ \A c, d \in DOMAIN generating :
           (c # d /\ generating[c].memberId # None /\ generating[d].memberId # None)
               => generating[c].memberId # generating[d].memberId
    /\ (\A c \in DOMAIN generating : generating[c].pc = "done")
           => StoredMemberNumber = InitialMemberNumber + Cardinality(Generated)


(***************************************************************************)
(* Properties of the team statistics under way.                            *)
(***************************************************************************)
\* C25: when a getTotalTeamSize or getTeamVolume call has finished that was
\* suspended at the await of its referrals' statistics while a placement
\* changed the tree, and no call is suspended any more, every cache entry
\* equals the value computed from the current tree
C25_NoStaleInFlight ==
    (/\ computing = EmptyMap
     /\ lastOp.op \in {"getTotalTeamSize", "getTeamVolume"}
     /\ lastOp.awaited
     /\ lastOp.overtaken)
    => /\ \A m \in DOMAIN teamSizeCache :
              teamSizeCache[m] = getTotalTeamSize(users, EmptyMap, m, Fuel(users))
       /\ \A m \in DOMAIN teamVolumeCache :
              teamVolumeCache[m] = getTeamVolume(users, EmptyMap, m, Fuel(users))

====
